---- MODULE Spec2Model ----
(***************************************************************************)
(* NutriTrack: the Target Calculator (src/src/types/nutrition.ts), the     *)
(* Quantity Converter (src/src/lib/nutritionCalculator.ts) and the         *)
(* profile hooks that persist their results (src/src/hooks/useProfile.ts,  *)
(* Profile.handleSave in src/src/pages/Dashboard.tsx).                     *)
(*                                                                         *)
(* JavaScript numbers are modelled by their real values, exact rationals   *)
(* [n, d] in lowest terms: +, -, * and / are the exact operations and      *)
(* Math.round is floor(x + 1/2).  An IEEE-754 double is within a relative  *)
(* 2^-53 per operation of the real value, which changes a result only      *)
(* where Math.round meets a tie.  In the Quantity Converter the side on    *)
(* which such a double lies is a choice of the environment (Roundings);    *)
(* the Target Calculator is modelled in exact arithmetic.                  *)
(***************************************************************************)
EXTENDS Integers, Sequences, FiniteSets, TLC

(***************************************************************************)
(* State.  Each specification below runs one part of the program and       *)
(* leaves the variables of the other parts at their initial values.        *)
(***************************************************************************)
VARIABLES
    \* The Target Calculator chained as in completeOnboarding.
    data,           \* the OnboardingData the calculator is run on (metric)
    pc,             \* the last step of the chain that has run
    bmr,            \* const bmr
    tdee,           \* const tdee
    calorieTarget,  \* const calorieTarget
    macros,         \* const macros
    \* One call of calculateNutrition.
    food,           \* the Food argument
    quantity,       \* the quantity argument
    unit,           \* the unit argument
    nutrition,      \* the NutritionResult returned
    called,         \* whether the call has returned
    roundings,      \* how the roundings of the call fell (Roundings)
    breakdown,      \* the CalculationBreakdown of the same food, quantity and unit
    \* Profile.handleSave, the useProfile hook and the profiles table.
    profiles,       \* the signed-in user's row of the profiles table
    queryData,      \* query.data: the profile the query last delivered
    profileFetch,   \* the profile query's fetch: idle, invalidated, or in flight
    editedProfile,  \* the form state of Profile
    savePc,         \* where handleSave stands
    targetsUpdate,  \* the update recalculateTargets has sent
    saves,          \* how many times handleSave has been started
    \* One call of validateMacroCalorieMatch.
    matchArgs,      \* the calories, protein, carbs and fat arguments
    validation,     \* the object returned
    validated,      \* whether the call has returned
    \* One visit of the FoodSearch page, its AddFoodDialog and the meal_logs table.
    searchParams,   \* the meal and date parameters of the page's URL
    location,       \* the route the browser is on
    selectedFood,   \* FoodSearch: the food the dialog is open on, or NoFood
    isAddingMeal,   \* FoodSearch: an add is in progress
    dialogQuantity, \* AddFoodDialog: const [quantity, setQuantity]
    dialogUnit,     \* AddFoodDialog: const [unit, setUnit]
    mealType,       \* AddFoodDialog: const [mealType, setMealType]
    availableUnits, \* AddFoodDialog: the availableUnits memo
    edits,          \* how many changes the user has made in the dialog during the visit
    addRequest,     \* the insert addMealLog has sent, with the data of the click
    mealLogs,       \* the rows of the meal_logs table, oldest first
    \* The record store under row level security, two users.
    store,          \* the rows of each table
    lastRequest,    \* the last request: its command, its auth.uid(), of a select its table
    response,       \* the rows the last request returned
    \* Calls of the Target Calculator and of calculateNutrition, one after another.
    multipliers,    \* the module-level object ACTIVITY_MULTIPLIERS of nutrition.ts
    firstCall,      \* the first call made: function, arguments and result
    lastCall,       \* the last call made
    calls,          \* how many calls have been made
    interleaved,    \* a call with other arguments followed the first call
    userFavorites,      \* the food ids of the user's rows of user_favorites
    favoritesData,      \* query.data of useFavorites: the food ids last fetched
    favoritesStale,     \* the favorites query has been invalidated and not yet refetched
    toggles,            \* the toggleFavorite calls made, with their mutations and outcomes
    authLoading,        \* useAuth().loading
    routeUser,          \* useAuth().user: Null or the id of the signed-in user
    profileRow,         \* the user's row of profiles, or no row
    profileQuery,       \* the profile query of useProfile: isLoading and data
    profileStale,       \* the profile query has been invalidated and not yet refetched
    pathname,           \* location.pathname
    requireOnboarding,  \* the prop of the ProtectedRoute of the current route
    weightLogs,         \* the user's rows of weight_logs
    lastUpsert,         \* the last addWeightLog call: its argument, the rows before it, its outcome
    upserts,            \* the number of addWeightLog calls made
    selectedDate,       \* Dashboard's selectedDate: year, month and day in local time
    clock,              \* the date new Date() gives now
    isToday,            \* isToday as computed by the last render
    lastNavigation,     \* the last of handlePrevDay and handleNextDay called, and the dates at the call
    daySteps            \* the number of handler calls and midnights so far

targetVars == <<data, pc, bmr, tdee, calorieTarget, macros>>

nutritionVars == <<food, quantity, unit, nutrition, called, roundings, breakdown>>

saveVars ==
    <<profiles, queryData, profileFetch, editedProfile, savePc, targetsUpdate, saves>>

validateVars == <<matchArgs, validation, validated>>

dialogVars ==
    <<searchParams, location, selectedFood, isAddingMeal, dialogQuantity, dialogUnit,
      mealType, availableUnits, edits, addRequest, mealLogs>>

storeVars == <<store, lastRequest, response>>

callVars == <<multipliers, firstCall, lastCall, calls, interleaved>>

favoriteVars == <<userFavorites, favoritesData, favoritesStale, toggles>>

routeVars == <<authLoading, routeUser, profileRow, profileQuery, profileStale, pathname, requireOnboarding>>

weightVars == <<weightLogs, lastUpsert, upserts>>

dayVars == <<selectedDate, clock, isToday, lastNavigation, daySteps>>

vars == <<targetVars, nutritionVars, saveVars, validateVars, dialogVars, storeVars, callVars, favoriteVars, routeVars, weightVars, dayVars>>

\* What the actions of one part leave unchanged: the variables of the others.
notTargetVars == <<nutritionVars, saveVars, validateVars, dialogVars, storeVars, callVars, favoriteVars, routeVars, weightVars, dayVars>>

notNutritionVars == <<targetVars, saveVars, validateVars, dialogVars, storeVars, callVars, favoriteVars, routeVars, weightVars, dayVars>>

notSaveVars == <<targetVars, nutritionVars, validateVars, dialogVars, storeVars, callVars, favoriteVars, routeVars, weightVars, dayVars>>

notValidateVars == <<targetVars, nutritionVars, saveVars, dialogVars, storeVars, callVars, favoriteVars, routeVars, weightVars, dayVars>>

\* What the FoodSearch page and its dialog leave alone.
notDialogVars == <<targetVars, nutritionVars, saveVars, validateVars, storeVars, callVars, favoriteVars, routeVars, weightVars, dayVars>>

\* What the requests to the record store leave alone.
notStoreVars == <<targetVars, nutritionVars, saveVars, validateVars, dialogVars, callVars, favoriteVars, routeVars, weightVars, dayVars>>

\* What a call of the two modules leaves alone.
notCallVars == <<targetVars, nutritionVars, saveVars, validateVars, dialogVars, storeVars, favoriteVars, routeVars, weightVars, dayVars>>

\* Everything but the favorites.
notFavoriteVars == <<targetVars, nutritionVars, saveVars, validateVars, dialogVars, storeVars, callVars, routeVars, weightVars, dayVars>>

\* Everything but the route guard.
notRouteVars == <<targetVars, nutritionVars, saveVars, validateVars, dialogVars, storeVars, callVars, favoriteVars, weightVars, dayVars>>

\* Everything but the weight logs.
notWeightVars == <<targetVars, nutritionVars, saveVars, validateVars, dialogVars, storeVars, callVars, favoriteVars, routeVars, dayVars>>

\* Everything but the dashboard's date.
notDayVars == <<targetVars, nutritionVars, saveVars, validateVars, dialogVars, storeVars, callVars, favoriteVars, routeVars, weightVars>>

(***************************************************************************)
(* Exact arithmetic on JavaScript numbers.                                 *)
(***************************************************************************)
Abs(i) == IF i < 0 THEN -i ELSE i

RECURSIVE GCD(_, _)
GCD(a, b) == IF b = 0 THEN a ELSE GCD(b, a % b)

\* The number n/d (d # 0) in lowest terms with a positive denominator.
R(n, d) ==
    LET s == IF d < 0 THEN -1 ELSE 1
        g == GCD(Abs(n), Abs(d))
    IN  [n |-> (s * n) \div g, d |-> (s * d) \div g]

Num(i) == [n |-> i, d |-> 1]

Add(x, y) == R(x.n * y.d + y.n * x.d, x.d * y.d)

Neg(x) == [n |-> -x.n, d |-> x.d]

Sub(x, y) == Add(x, Neg(y))

\* Cross-cancelled before multiplying, so that intermediate products stay small.
Mul(x, y) ==
    LET a == R(x.n, y.d)
        b == R(y.n, x.d)
    IN  [n |-> a.n * b.n, d |-> a.d * b.d]

\* x / y for y # 0 (every divisor of the modelled code is a non-zero constant
\* or a serving size the code has defaulted to 100 when it is 0).
Div(x, y) == Mul(x, R(y.d, y.n))

Less(x, y) == x.n * y.d < y.n * x.d

Leq(x, y) == x.n * y.d <= y.n * x.d

IsZero(x) == x.n = 0

\* NaN: parseFloat of a text that is no number, and a missing (undefined)
\* number in arithmetic.  Like 0 it is falsy: IsZero(NaN).
NaN == [n |-> 0, d |-> 0]

Max(x, y) == IF Less(x, y) THEN y ELSE x

\* A rounding that Math.round is not: a tie going away from zero.
MathRound_HalfAwayFromZero(x) ==
    IF x.n >= 0
    THEN (2 * x.n + x.d) \div (2 * x.d)
    ELSE -((2 * (-x.n) + x.d) \div (2 * x.d))

\* Math.round: the integer nearest to x, a tie going towards +Infinity.
MathRound(x) == (2 * x.n + x.d) \div (2 * x.d)

(***************************************************************************)
(* Enumerations of src/src/types/nutrition.ts.                             *)
(***************************************************************************)
Gender == {"male", "female", "other"}

ActivityLevel ==
    {"sedentary", "lightly_active", "moderately_active", "very_active", "extra_active"}

GoalType == {"lose", "maintain", "gain"}

(***************************************************************************)
(* Target Calculator.                                                      *)
(***************************************************************************)
\* A plausible slip: the female offset applied to every gender.
calculateBMR_FemaleOffsetOnly(weight, height, age, gender) ==
    Sub(Sub(Add(Mul(Num(10), weight), Mul(R(625, 100), height)), Mul(Num(5), Num(age))),
        Num(161))

\* A plausible slip: only 'female' tested, so that 'other' takes the male offset.
calculateBMR_OtherAsMale(weight, height, age, gender) ==
    LET base == Sub(Add(Mul(Num(10), weight), Mul(R(625, 100), height)),
                    Mul(Num(5), Num(age)))
    IN  IF gender = "female" THEN Sub(base, Num(161)) ELSE Add(base, Num(5))

calculateBMR(weight, height, age, gender) ==
    LET base == Sub(Add(Mul(Num(10), weight), Mul(R(625, 100), height)),
                    Mul(Num(5), Num(age)))
    IN  IF gender = "male" THEN Add(base, Num(5)) ELSE Sub(base, Num(161))

\* A plausible slip: the multiplier of very_active copied from moderately_active.
ACTIVITY_MULTIPLIERS_Copied(level) ==
    CASE level = "sedentary" -> R(12, 10)
      [] level = "lightly_active" -> R(1375, 1000)
      [] level = "moderately_active" -> R(155, 100)
      [] level = "very_active" -> R(155, 100)
      [] level = "extra_active" -> R(19, 10)

ACTIVITY_MULTIPLIERS(level) ==
    CASE level = "sedentary" -> R(12, 10)
      [] level = "lightly_active" -> R(1375, 1000)
      [] level = "moderately_active" -> R(155, 100)
      [] level = "very_active" -> R(1725, 1000)
      [] level = "extra_active" -> R(19, 10)

calculateTDEE(b, activityLevel) == Mul(b, ACTIVITY_MULTIPLIERS(activityLevel))

\* A plausible slip: the deficit of the lose goal left out.
calculateCalorieTarget_NoDeficit(t, goalType) ==
    CASE goalType = "gain" -> MathRound(Mul(t, R(110, 100)))
      [] OTHER -> MathRound(t)

\* A plausible slip: a fixed deficit of 500 kcal for the lose goal.
calculateCalorieTarget_FixedDeficit(t, goalType) ==
    CASE goalType = "lose" -> MathRound(Sub(t, Num(500)))
      [] goalType = "gain" -> MathRound(Mul(t, R(110, 100)))
      [] OTHER -> MathRound(t)

calculateCalorieTarget(t, goalType) ==
    CASE goalType = "lose" -> MathRound(Mul(t, R(80, 100)))
      [] goalType = "gain" -> MathRound(Mul(t, R(110, 100)))
      [] OTHER -> MathRound(t)

\* A plausible slip: the protein of gain and maintain exchanged.
proteinPerKg_GainMaintainExchanged(goalType) ==
    CASE goalType = "lose" -> R(20, 10)
      [] goalType = "gain" -> R(16, 10)
      [] OTHER -> R(18, 10)

proteinPerKg(goalType) ==
    CASE goalType = "lose" -> R(20, 10)
      [] goalType = "gain" -> R(18, 10)
      [] OTHER -> R(16, 10)

fatPercent(goalType) == R(25, 100)

\* The record calculateMacroTargets returns for its three gram values.
MacroResult(protein, carbs, fat) ==
    [protein |-> protein, carbs |-> carbs, fat |-> fat,
     _calculatedCalories |-> (protein * 4) + (carbs * 4) + (fat * 9)]

\* A plausible slip: carbs truncated (Math.floor) instead of rounded.
calculateMacroTargets_FloorCarbs(target, goalType, weightKg) ==
    LET weight == IF IsZero(weightKg) THEN Num(70) ELSE weightKg
        protein == MathRound(Mul(weight, proteinPerKg(goalType)))
        fat == MathRound(Div(Mul(Num(target), fatPercent(goalType)), Num(9)))
        carbCalories == target - (protein * 4) - (fat * 9)
    IN  MacroResult(protein, (IF carbCalories < 0 THEN 0 ELSE carbCalories) \div 4, fat)

\* A plausible slip: the remainder not clamped at 0.
calculateMacroTargets_NoClamp(target, goalType, weightKg) ==
    LET weight == IF IsZero(weightKg) THEN Num(70) ELSE weightKg
        protein == MathRound(Mul(weight, proteinPerKg(goalType)))
        fat == MathRound(Div(Mul(Num(target), fatPercent(goalType)), Num(9)))
        carbCalories == target - (protein * 4) - (fat * 9)
    IN  MacroResult(protein, MathRound(R(carbCalories, 4)), fat)

\* A plausible slip: Math.min in the place of Math.max.
calculateMacroTargets_MinClamp(target, goalType, weightKg) ==
    LET weight == IF IsZero(weightKg) THEN Num(70) ELSE weightKg
        protein == MathRound(Mul(weight, proteinPerKg(goalType)))
        fat == MathRound(Div(Mul(Num(target), fatPercent(goalType)), Num(9)))
        carbCalories == target - (protein * 4) - (fat * 9)
    IN  MacroResult(protein,
                    MathRound(R(IF carbCalories < 0 THEN carbCalories ELSE 0, 4)), fat)

\* The macros of a calorie target; weightKg || 70 replaces a weight of 0 by 70.
calculateMacroTargets(target, goalType, weightKg) ==
    LET weight == IF IsZero(weightKg) THEN Num(70) ELSE weightKg
        protein == MathRound(Mul(weight, proteinPerKg(goalType)))
        proteinCalories == protein * 4
        fatCalories == Mul(Num(target), fatPercent(goalType))
        fat == MathRound(Div(fatCalories, Num(9)))
        carbCalories == target - proteinCalories - (fat * 9)
        carbs == MathRound(Div(Max(Num(0), Num(carbCalories)), Num(4)))
    IN  MacroResult(protein, carbs, fat)

(***************************************************************************)
(* Quantity Converter.                                                     *)
(***************************************************************************)
QuantityUnit == {"g", "ml", "serving"}

FoodCategory ==
    {"fruits", "vegetables", "proteins", "grains", "dairy", "fats", "beverages",
     "snacks", "custom"}

RECURSIVE Pow10(_)
Pow10(k) == IF k = 0 THEN 1 ELSE 10 * Pow10(k - 1)

RECURSIVE IsPowerOfTwo(_)
IsPowerOfTwo(k) == k = 1 \/ (k % 2 = 0 /\ IsPowerOfTwo(k \div 2))

\* x is a double: a binary fraction (the magnitudes of this model are far
\* inside the 53 bits of a double's significand).
Representable(x) == IsPowerOfTwo(x.d)

\* The values calculateNutrition rounds: the four figures of the result and
\* the grams printed in displayQuantity.
RoundedFields == {"calories", "protein", "carbs", "fat", "grams"}

\* For each rounded value, the side on which the double handed to Math.round
\* lies when its real value is a tie k + 1/2 that the doubles before it do not
\* hold exactly.
Roundings == [RoundedFields -> {"down", "up"}]

\* Math.round of the double computed for the real value x.  When every operand
\* is a double and the real result is one too, the operations are exact and a
\* tie goes towards +Infinity; otherwise the double is within a few 2^-53 of x
\* and only at a tie can that change the result.
MathRoundOfDouble(x, exact, side) ==
    IF x.d = 2 /\ ~exact /\ side = "down" THEN MathRound(x) - 1 ELSE MathRound(x)

\* Math.round(value * factor) / factor with factor = Math.pow(10, decimals).
roundToDecimal(value, decimals, exact, side) ==
    LET factor == Pow10(decimals)
    IN  R(MathRoundOfDouble(Mul(value, Num(factor)), exact, side), factor)

isLiquid(category) == category = "beverages"

getDefaultUnit(category) == IF isLiquid(category) THEN "ml" ELSE "serving"

\* getAvailableUnits with grams before millilitres for every category.
getAvailableUnits_GramsFirst(category) ==
    <<[value |-> "serving", label |-> "Servings"],
      [value |-> "g", label |-> "Grams (g)"],
      [value |-> "ml", label |-> "Milliliters (ml)"]>>

getAvailableUnits(category) ==
    <<[value |-> "serving", label |-> "Servings"]>>
        \o (IF isLiquid(category)
            THEN <<[value |-> "ml", label |-> "Milliliters (ml)"],
                   [value |-> "g", label |-> "Grams (g)"]>>
            ELSE <<[value |-> "g", label |-> "Grams (g)"],
                   [value |-> "ml", label |-> "Milliliters (ml)"]>>)

\* food.serving_grams || 100
\* A plausible slip: one gram as the serving size of a food that has none.
ServingGramsOf_OneGram(f) == IF IsZero(f.serving_grams) THEN Num(1) ELSE f.serving_grams

ServingGramsOf(f) == IF IsZero(f.serving_grams) THEN Num(100) ELSE f.serving_grams

\* The real value of multiplier.
Multiplier(f, q, u) == IF u \in {"g", "ml"} THEN Div(q, ServingGramsOf(f)) ELSE q

\* multiplier holds its real value exactly.
MultiplierExact(f, q, u) ==
    /\ Representable(q)
    /\ u \in {"g", "ml"} =>
          Representable(ServingGramsOf(f)) /\ Representable(Multiplier(f, q, u))

\* multiplier is the double nearest to its real value: the quantity as it was
\* entered, or one division of two doubles.
MultiplierNearest(f, q, u) ==
    u \in {"g", "ml"} => Representable(q) /\ Representable(ServingGramsOf(f))

\* The roundings of calculateNutrition(f, q, u) that meet a tie the doubles do
\* not hold exactly: only there does the side matter.
InexactTies(f, q, u) ==
    LET m == Multiplier(f, q, u)
        exact == MultiplierExact(f, q, u)
        Tie(x, fact) == x.d = 2 /\ ~(exact /\ Representable(fact))
    IN  {k \in RoundedFields :
            CASE k = "calories" ->
                   Tie(Mul(f.calories_per_serving, m), f.calories_per_serving)
              [] k = "protein" -> Tie(Mul(Mul(f.protein_grams, m), Num(10)), f.protein_grams)
              [] k = "carbs" -> Tie(Mul(Mul(f.carbs_grams, m), Num(10)), f.carbs_grams)
              [] k = "fat" -> Tie(Mul(Mul(f.fat_grams, m), Num(10)), f.fat_grams)
              [] k = "grams" ->
                   /\ u = "serving"
                   /\ Mul(q, ServingGramsOf(f)).d = 2
                   /\ ~(Representable(q) /\ Representable(ServingGramsOf(f)))}

\* The ways the roundings of a call can fall: a side for each inexact tie
\* ("up" stands for the roundings that meet none).
RoundingsOf(f, q, u) ==
    {o \in Roundings : \A k \in RoundedFields \ InexactTies(f, q, u) : o[k] = "up"}

\* Two calls on the same food run the same double operations on the same
\* doubles: the same quantity in g and in ml, or multipliers that are the
\* nearest double of the same real value.
SameDoubles(f, q1, u1, q2, u2) ==
    \/ q1 = q2 /\ u1 = u2
    \/ q1 = q2 /\ u1 \in {"g", "ml"} /\ u2 \in {"g", "ml"}
    \/ /\ MultiplierNearest(f, q1, u1)
       /\ MultiplierNearest(f, q2, u2)
       /\ Multiplier(f, q1, u1) = Multiplier(f, q2, u2)

\* The ways the roundings of calculateNutrition(f, q2, u2) can fall, given
\* that those of calculateNutrition(f, q1, u1) fell as fl1.
RoundingsOfCall(f, q1, u1, fl1, q2, u2) ==
    IF SameDoubles(f, q1, u1, q2, u2) THEN {fl1} ELSE RoundingsOf(f, q2, u2)

\* displayQuantity with the suffix g in the parentheses for every category.
DisplayQuantity_GramsSuffix(f, q, u, side) ==
    CASE u = "g" -> <<q, "g">>
      [] u = "ml" -> <<q, "ml">>
      [] OTHER ->
           <<q, IF q = Num(1) THEN "serving" ELSE "servings",
             Num(MathRoundOfDouble(Mul(q, ServingGramsOf(f)),
                                   Representable(q) /\ Representable(ServingGramsOf(f)),
                                   side)),
             "g">>

\* The template string of displayQuantity as its parts: the number printed,
\* then the literal text around it.
DisplayQuantity(f, q, u, side) ==
    CASE u = "g" -> <<q, "g">>
      [] u = "ml" -> <<q, "ml">>
      [] OTHER ->
           <<q, IF q = Num(1) THEN "serving" ELSE "servings",
             Num(MathRoundOfDouble(Mul(q, ServingGramsOf(f)),
                                   Representable(q) /\ Representable(ServingGramsOf(f)),
                                   side)),
             IF isLiquid(f.category) THEN "ml" ELSE "g">>

\* A plausible slip: grams and millilitres scaled by a fixed 100 g serving.
calculateNutrition_Per100(f, q, u, sides) ==
    LET multiplier == IF u \in {"g", "ml"} THEN Div(q, Num(100)) ELSE q
        exact == Representable(q) /\ Representable(multiplier)
    IN  [calories |->
             MathRoundOfDouble(Mul(f.calories_per_serving, multiplier),
                               exact /\ Representable(f.calories_per_serving),
                               sides.calories),
         protein |->
             roundToDecimal(Mul(f.protein_grams, multiplier), 1,
                            exact /\ Representable(f.protein_grams), sides.protein),
         carbs |->
             roundToDecimal(Mul(f.carbs_grams, multiplier), 1,
                            exact /\ Representable(f.carbs_grams), sides.carbs),
         fat |->
             roundToDecimal(Mul(f.fat_grams, multiplier), 1,
                            exact /\ Representable(f.fat_grams), sides.fat),
         displayQuantity |-> DisplayQuantity(f, q, u, sides.grams)]

\* A plausible slip: millilitres taken as servings (the case 'ml' left out, so
\* that the switch falls to its default).
calculateNutrition_MlAsServings(f, q, u, sides) ==
    LET multiplier == IF u = "g" THEN Div(q, ServingGramsOf(f)) ELSE q
        exact == MultiplierExact(f, q, IF u = "g" THEN "g" ELSE "serving")
    IN  [calories |->
             MathRoundOfDouble(Mul(f.calories_per_serving, multiplier),
                               exact /\ Representable(f.calories_per_serving),
                               sides.calories),
         protein |->
             roundToDecimal(Mul(f.protein_grams, multiplier), 1,
                            exact /\ Representable(f.protein_grams), sides.protein),
         carbs |->
             roundToDecimal(Mul(f.carbs_grams, multiplier), 1,
                            exact /\ Representable(f.carbs_grams), sides.carbs),
         fat |->
             roundToDecimal(Mul(f.fat_grams, multiplier), 1,
                            exact /\ Representable(f.fat_grams), sides.fat),
         displayQuantity |-> DisplayQuantity(f, q, u, sides.grams)]

\* A plausible slip: the multiplier rounded to 2 decimals, as the breakdown
\* displays it, before the facts are scaled.
calculateNutrition_RoundedMultiplier(f, q, u, sides) ==
    LET multiplier == roundToDecimal(Multiplier(f, q, u), 2, TRUE, "up")
        exact == MultiplierExact(f, q, u)
    IN  [calories |->
             MathRoundOfDouble(Mul(f.calories_per_serving, multiplier),
                               exact /\ Representable(f.calories_per_serving),
                               sides.calories),
         protein |->
             roundToDecimal(Mul(f.protein_grams, multiplier), 1,
                            exact /\ Representable(f.protein_grams), sides.protein),
         carbs |->
             roundToDecimal(Mul(f.carbs_grams, multiplier), 1,
                            exact /\ Representable(f.carbs_grams), sides.carbs),
         fat |->
             roundToDecimal(Mul(f.fat_grams, multiplier), 1,
                            exact /\ Representable(f.fat_grams), sides.fat),
         displayQuantity |-> DisplayQuantity(f, q, u, sides.grams)]

\* calculateNutrition(food, quantity, unit), its roundings falling as sides.
calculateNutrition(f, q, u, sides) ==
    LET multiplier == Multiplier(f, q, u)
        exact == MultiplierExact(f, q, u)
        rawCalories == Mul(f.calories_per_serving, multiplier)
        rawProtein == Mul(f.protein_grams, multiplier)
        rawCarbs == Mul(f.carbs_grams, multiplier)
        rawFat == Mul(f.fat_grams, multiplier)
    IN  [calories |->
             MathRoundOfDouble(rawCalories,
                               exact /\ Representable(f.calories_per_serving),
                               sides.calories),
         protein |->
             roundToDecimal(rawProtein, 1, exact /\ Representable(f.protein_grams),
                            sides.protein),
         carbs |->
             roundToDecimal(rawCarbs, 1, exact /\ Representable(f.carbs_grams),
                            sides.carbs),
         fat |->
             roundToDecimal(rawFat, 1, exact /\ Representable(f.fat_grams), sides.fat),
         displayQuantity |-> DisplayQuantity(f, q, u, sides.grams)]

\* The values getCalculationBreakdown rounds for display.
DisplayFields == {"calories", "protein", "carbs", "fat", "multiplier"}

\* For each of them, the side of an inexact tie (as Roundings).
DisplaySides == [DisplayFields -> {"down", "up"}]

\* The displayed values of getCalculationBreakdown(f, q, u) that meet an
\* inexact tie.
InexactDisplayTies(f, q, u) ==
    LET servingGrams == ServingGramsOf(f)
        Tie(fact) ==
            /\ Mul(Mul(Div(fact, servingGrams), Num(100)), Num(10)).d = 2
            /\ ~(/\ Representable(fact)
                 /\ Representable(servingGrams)
                 /\ Representable(Div(fact, servingGrams)))
    IN  {k \in DisplayFields :
            CASE k = "calories" -> Tie(f.calories_per_serving)
              [] k = "protein" -> Tie(f.protein_grams)
              [] k = "carbs" -> Tie(f.carbs_grams)
              [] k = "fat" -> Tie(f.fat_grams)
              [] k = "multiplier" ->
                   /\ Mul(Multiplier(f, q, u), Num(100)).d = 2
                   /\ ~MultiplierExact(f, q, u)}

DisplaySidesOf(f, q, u) ==
    {o \in DisplaySides :
        \A k \in DisplayFields \ InexactDisplayTies(f, q, u) : o[k] = "up"}

\* (fact / servingGrams) * 100 rounded to 1 decimal.
PerBase(fact, servingGrams, side) ==
    roundToDecimal(Mul(Div(fact, servingGrams), Num(100)), 1,
                   /\ Representable(fact)
                   /\ Representable(servingGrams)
                   /\ Representable(Div(fact, servingGrams)),
                   side)

NoBreakdown ==
    [baseAmount |-> 0, baseUnit |-> "g",
     perBaseNutrition |-> [k \in {"calories", "protein", "carbs", "fat"} |-> Num(0)],
     multiplier |-> Num(0),
     finalNutrition |->
         [calories |-> 0, protein |-> Num(0), carbs |-> Num(0), fat |-> Num(0),
          displayQuantity |-> <<>>]]

\* A plausible slip: the final nutrition scaled by the multiplier as displayed.
getCalculationBreakdown_FromDisplayedMultiplier(f, q, u, sides, display) ==
    LET servingGrams == ServingGramsOf(f)
    IN  [baseAmount |-> 100,
         baseUnit |-> IF isLiquid(f.category) THEN "ml" ELSE "g",
         perBaseNutrition |->
             [calories |-> PerBase(f.calories_per_serving, servingGrams, display.calories),
              protein |-> PerBase(f.protein_grams, servingGrams, display.protein),
              carbs |-> PerBase(f.carbs_grams, servingGrams, display.carbs),
              fat |-> PerBase(f.fat_grams, servingGrams, display.fat)],
         multiplier |->
             roundToDecimal(Multiplier(f, q, u), 2, MultiplierExact(f, q, u),
                            display.multiplier),
         finalNutrition |-> calculateNutrition_RoundedMultiplier(f, q, u, sides)]

\* getCalculationBreakdown(food, quantity, unit): the roundings of its call of
\* calculateNutrition falling as sides, those of the displayed values as display.
getCalculationBreakdown(f, q, u, sides, display) ==
    LET servingGrams == ServingGramsOf(f)
    IN  [baseAmount |-> 100,
         baseUnit |-> IF isLiquid(f.category) THEN "ml" ELSE "g",
         perBaseNutrition |->
             [calories |-> PerBase(f.calories_per_serving, servingGrams, display.calories),
              protein |-> PerBase(f.protein_grams, servingGrams, display.protein),
              carbs |-> PerBase(f.carbs_grams, servingGrams, display.carbs),
              fat |-> PerBase(f.fat_grams, servingGrams, display.fat)],
         multiplier |->
             roundToDecimal(Multiplier(f, q, u), 2, MultiplierExact(f, q, u),
                            display.multiplier),
         finalNutrition |-> calculateNutrition(f, q, u, sides)]

(***************************************************************************)
(* The inputs the Target Calculator is run on.                             *)
(***************************************************************************)
MaxWeightIdx == 2
MaxSmallHeight == 5
MaxSmallAge == 8

Weights == {Num(1 + 69 * i) : i \in 0..MaxWeightIdx}

Heights == {Num(h) : h \in 3..MaxSmallHeight} \cup {Num(175)}

Ages == (5..MaxSmallAge) \cup {30}

NoMacros == [protein |-> 0, carbs |-> 0, fat |-> 0, _calculatedCalories |-> 0]

\* The calculator has not been started.
TargetIdle ==
    /\ data = [current_weight |-> Num(70), height |-> Num(175), age |-> 30,
               gender |-> "male", activity_level |-> "sedentary", goal_type |-> "maintain"]
    /\ pc = "start"
    /\ bmr = Num(0)
    /\ tdee = Num(0)
    /\ calorieTarget = 0
    /\ macros = NoMacros

TargetInit ==
    /\ data \in [current_weight : Weights, height : Heights, age : Ages,
                 gender : Gender, activity_level : ActivityLevel, goal_type : GoalType]
    /\ pc = "start"
    /\ bmr = Num(0)
    /\ tdee = Num(0)
    /\ calorieTarget = 0
    /\ macros = NoMacros

\* const bmr = calculateBMR(weightKg, heightCm, data.age, data.gender)
StepBMR ==
    /\ pc = "start"
    /\ bmr' = calculateBMR(data.current_weight, data.height, data.age, data.gender)
    /\ pc' = "bmr"
    /\ UNCHANGED <<data, tdee, calorieTarget, macros>>
    /\ UNCHANGED notTargetVars

\* const tdee = calculateTDEE(bmr, data.activity_level)
StepTDEE ==
    /\ pc = "bmr"
    /\ tdee' = calculateTDEE(bmr, data.activity_level)
    /\ pc' = "tdee"
    /\ UNCHANGED <<data, bmr, calorieTarget, macros>>
    /\ UNCHANGED notTargetVars

\* const calorieTarget = calculateCalorieTarget(tdee, data.goal_type)
StepCalorieTarget ==
    /\ pc = "tdee"
    /\ calorieTarget' = calculateCalorieTarget(tdee, data.goal_type)
    /\ pc' = "calories"
    /\ UNCHANGED <<data, bmr, tdee, macros>>
    /\ UNCHANGED notTargetVars

\* const macros = calculateMacroTargets(calorieTarget, data.goal_type, weightKg)
StepMacroTargets ==
    /\ pc = "calories"
    /\ macros' = calculateMacroTargets(calorieTarget, data.goal_type, data.current_weight)
    /\ pc' = "macros"
    /\ UNCHANGED <<data, bmr, tdee, calorieTarget>>
    /\ UNCHANGED notTargetVars

(***************************************************************************)
(* One call of calculateNutrition, on a food, a quantity and a unit.       *)
(***************************************************************************)
MaxServingIdx == 3
MaxHalfServings == 4
MaxGramIdx == 2

\* serving_grams: 0 and missing, 28 (an ounce) and 50, 100, 150, ...
ServingSizes == {Num(0), NaN, Num(28)} \cup {Num(50 * i) : i \in 1..MaxServingIdx}

\* <<protein_grams, carbs_grams, fat_grams>> per serving.
MacroFacts == {<<R(3, 10), R(138, 10), R(2, 10)>>, <<R(125, 10), Num(0), R(725, 100)>>}

Foods ==
    {[serving_grams |-> sg, calories_per_serving |-> Num(c), protein_grams |-> m[1],
      carbs_grams |-> m[2], fat_grams |-> m[3], category |-> cat] :
        sg \in ServingSizes, c \in {45, 300}, m \in MacroFacts,
        cat \in {"beverages", "fruits"}}

\* 0, 0.5, 1, 1.5, ... and 0.7 (servings), 75, 150, ... and 19.6 (grams or
\* millilitres; 19.6 g are 0.7 servings of 28 g).
Quantities ==
    {R(i, 2) : i \in 0..MaxHalfServings} \cup {Num(75 * i) : i \in 1..MaxGramIdx}
        \cup {R(7, 10), R(196, 10)}

NoNutrition ==
    [calories |-> 0, protein |-> Num(0), carbs |-> Num(0), fat |-> Num(0),
     displayQuantity |-> <<>>]

\* No call has been made.
NutritionIdle ==
    /\ food = [serving_grams |-> Num(100), calories_per_serving |-> Num(52),
               protein_grams |-> Num(0), carbs_grams |-> Num(0), fat_grams |-> Num(0),
               category |-> "fruits"]
    /\ quantity = Num(1)
    /\ unit = "serving"
    /\ nutrition = NoNutrition
    /\ called = FALSE
    /\ roundings = [k \in RoundedFields |-> "up"]
    /\ breakdown = NoBreakdown

NutritionInit ==
    /\ food \in Foods
    /\ quantity \in Quantities
    /\ unit \in QuantityUnit
    /\ nutrition = NoNutrition
    /\ called = FALSE
    /\ roundings = [k \in RoundedFields |-> "up"]
    /\ breakdown = NoBreakdown

\* const nutrition = calculateNutrition(food, quantity, unit)
CallCalculateNutrition ==
    /\ ~called
    /\ \E o \in RoundingsOf(food, quantity, unit) :
          /\ roundings' = o
          /\ nutrition' = calculateNutrition(food, quantity, unit, o)
    /\ called' = TRUE
    /\ UNCHANGED <<food, quantity, unit, breakdown>>
    /\ UNCHANGED notNutritionVars

\* const breakdown = getCalculationBreakdown(food, quantity, unit), its call of
\* calculateNutrition running the same double operations as the direct call.
CallGetCalculationBreakdown ==
    /\ called
    /\ breakdown = NoBreakdown
    /\ \E o \in DisplaySidesOf(food, quantity, unit) :
          breakdown' = getCalculationBreakdown(food, quantity, unit, roundings, o)
    /\ UNCHANGED <<food, quantity, unit, nutrition, called, roundings>>
    /\ UNCHANGED notNutritionVars

(***************************************************************************)
(* validateMacroCalorieMatch.                                              *)
(***************************************************************************)
\* For each comparison and each Math.round of validateMacroCalorieMatch, the
\* side on which the double of the left-hand value lies when its real value
\* is exactly on the boundary (the bound compared with, a tie k + 1/2) and
\* the doubles before it do not hold it exactly.
ValidatorSides ==
    [{"withinTolerance", "withinFive", "calculatedCalories", "difference"} ->
        {"down", "up"}]

\* x <= y on the doubles computed for the real values x and y.
LeqOfDoubles(x, y, exact, side) ==
    IF x = y /\ ~exact THEN side = "down" ELSE Leq(x, y)

\* Math.abs
MathAbs(x) == IF x.n < 0 THEN Neg(x) ELSE x

\* A plausible slip: both tolerances required (&& for ||).
validateMacroCalorieMatch_BothTolerances(calories, protein, carbs, fat, sides) ==
    LET calculatedCalories ==
            Add(Add(Mul(protein, Num(4)), Mul(carbs, Num(4))), Mul(fat, Num(9)))
        difference == MathAbs(Sub(calories, calculatedCalories))
        tolerance == Mul(calories, R(5, 100))
        exact == \A x \in {calories, protein, carbs, fat} : Representable(x)
    IN  [isValid |->
             /\ LeqOfDoubles(difference, tolerance, exact, sides.withinTolerance)
             /\ LeqOfDoubles(difference, Num(5), exact, sides.withinFive),
         calculatedCalories |->
             MathRoundOfDouble(calculatedCalories, exact, sides.calculatedCalories),
         difference |-> MathRoundOfDouble(difference, exact, sides.difference)]

validateMacroCalorieMatch(calories, protein, carbs, fat, sides) ==
    LET calculatedCalories ==
            Add(Add(Mul(protein, Num(4)), Mul(carbs, Num(4))), Mul(fat, Num(9)))
        difference == MathAbs(Sub(calories, calculatedCalories))
        \* Allow 5% tolerance for rounding
        tolerance == Mul(calories, R(5, 100))
        exact == \A x \in {calories, protein, carbs, fat} : Representable(x)
    IN  [isValid |->
             \/ LeqOfDoubles(difference, tolerance, exact, sides.withinTolerance)
             \/ LeqOfDoubles(difference, Num(5), exact, sides.withinFive),
         calculatedCalories |->
             MathRoundOfDouble(calculatedCalories, exact, sides.calculatedCalories),
         difference |-> MathRoundOfDouble(difference, exact, sides.difference)]

MaxCaloriesIdx == 10
MaxMacroIdx == 3

\* calories: 0, 20, 40, ...
MatchCalories == {Num(20 * i) : i \in 0..MaxCaloriesIdx}

\* 0, 5, 10, ... grams, and one value of 1 decimal for each macro.
MatchGrams(decimal) == {Num(5 * i) : i \in 0..MaxMacroIdx} \cup {decimal}

NoValidation == [isValid |-> FALSE, calculatedCalories |-> 0, difference |-> 0]

\* No call has been made.
ValidateIdle ==
    /\ matchArgs = [calories |-> Num(0), protein |-> Num(0), carbs |-> Num(0),
                    fat |-> Num(0)]
    /\ validation = NoValidation
    /\ validated = FALSE

ValidateInit ==
    /\ matchArgs \in [calories : MatchCalories, protein : MatchGrams(R(7, 10)),
                      carbs : MatchGrams(R(11, 10)), fat : MatchGrams(R(42, 10))]
    /\ validation = NoValidation
    /\ validated = FALSE

\* validateMacroCalorieMatch(calories, protein, carbs, fat)
CallValidateMacroCalorieMatch ==
    /\ ~validated
    /\ \E o \in ValidatorSides :
          validation' = validateMacroCalorieMatch(matchArgs.calories, matchArgs.protein,
                                                  matchArgs.carbs, matchArgs.fat, o)
    /\ validated' = TRUE
    /\ UNCHANGED matchArgs
    /\ UNCHANGED notValidateVars

(***************************************************************************)
(* Profile.handleSave: updateProfile, then recalculateTargets, against the *)
(* profiles row and the profile query of useProfile.                       *)
(***************************************************************************)
MaxSaveWeightIdx == 1
MaxSaves == 2

UnitSystem == {"metric", "imperial"}

\* The fields of the edit form that the model varies; the others keep the
\* values of the row.  A weight of 0 is a cleared field (parseFloat(...) || 0).
EditedProfiles ==
    [current_weight : {Num(0)} \cup {Num(70 + 10 * i) : i \in 0..MaxSaveWeightIdx},
     height : {Num(175)}, age : {30}, goal_type : {"lose", "maintain"},
     activity_level : {"moderately_active"}, unit_system : UnitSystem]

\* Convert to metric if imperial.
WeightKg(profile) ==
    IF profile.unit_system = "imperial"
    THEN Div(profile.current_weight, R(2205, 1000))
    ELSE profile.current_weight

\* recalculateTargets passing the stored height of an imperial profile as it is.
HeightCm_Unconverted(profile) == profile.height

HeightCm(profile) ==
    IF profile.unit_system = "imperial"
    THEN Mul(profile.height, R(254, 100))
    ELSE profile.height

\* completeOnboarding: the four targets it computes for the onboarding data
\* and writes with them.
OnboardingTargets(d) ==
    LET weightKg == IF d.unit_system = "imperial"
                    THEN Div(d.current_weight, R(2205, 1000))
                    ELSE d.current_weight
        heightCm == IF d.unit_system = "imperial"
                    THEN Mul(d.height, R(254, 100))
                    ELSE d.height
        b == calculateBMR(weightKg, heightCm, d.age, d.gender)
        t == calculateTDEE(b, d.activity_level)
        target == calculateCalorieTarget(t, d.goal_type)
        m == calculateMacroTargets(target, d.goal_type, weightKg)
    IN  [daily_calorie_target |-> target, daily_protein_target |-> m.protein,
         daily_carbs_target |-> m.carbs, daily_fat_target |-> m.fat]

\* recalculateTargets: the four targets it computes for the profile of the
\* query.
ComputedTargets(profile) ==
    LET weightKg == WeightKg(profile)
        heightCm == HeightCm(profile)
        b == calculateBMR(weightKg, heightCm, profile.age, profile.gender)
        t == calculateTDEE(b, profile.activity_level)
        target == calculateCalorieTarget(t, profile.goal_type)
        m == calculateMacroTargets(target, profile.goal_type, weightKg)
    IN  [daily_calorie_target |-> target, daily_protein_target |-> m.protein,
         daily_carbs_target |-> m.carbs, daily_fat_target |-> m.fat]

\* if (!profile.current_weight || !profile.height || !profile.age || !profile.gender)
MissingProfileData(profile) ==
    IsZero(profile.current_weight) \/ IsZero(profile.height) \/ profile.age = 0

\* row with the fields of `updates` replaced: .update(updates).eq('user_id', user.id)
UpdateRow(row, updates) ==
    [k \in DOMAIN row |-> IF k \in DOMAIN updates THEN updates[k] ELSE row[k]]

Idle == [state |-> "idle"]

\* queryClient.invalidateQueries: the query refetches, a fetch in flight is dropped.
Invalidated == [state |-> "invalidated"]

NoTargets ==
    [daily_calorie_target |-> 0, daily_protein_target |-> 0, daily_carbs_target |-> 0,
     daily_fat_target |-> 0]

\* The row completeOnboarding has written for an onboarded user.
OnboardedRows ==
    {UpdateRow([gender |-> "female"] @@ e @@ NoTargets,
               OnboardingTargets([gender |-> "female"] @@ e)) :
        e \in {x \in EditedProfiles : ~IsZero(x.current_weight)}}

SaveIdle ==
    /\ profiles = CHOOSE r \in OnboardedRows :
                      r.current_weight = Num(70) /\ r.goal_type = "maintain"
                      /\ r.unit_system = "metric"
    /\ queryData = profiles
    /\ profileFetch = Idle
    /\ editedProfile = CHOOSE e \in EditedProfiles :
                           e.current_weight = Num(70) /\ e.goal_type = "maintain"
                           /\ e.unit_system = "metric"
    /\ savePc = "idle"
    /\ targetsUpdate = NoTargets
    /\ saves = 0

\* The Profile page of an onboarded user, the query loaded, the form as
\* handleEdit fills it from the profile.
SaveInit ==
    /\ profiles \in OnboardedRows
    /\ queryData = profiles
    /\ profileFetch = Idle
    /\ editedProfile = [k \in {"current_weight", "height", "age", "goal_type",
                               "activity_level", "unit_system"} |-> profiles[k]]
    /\ savePc = "idle"
    /\ targetsUpdate = NoTargets
    /\ saves = 0

\* handleEdit fills the form from the profile, the user changes weight, goal
\* or the other inputs (the form has none for unit_system) and presses Save:
\* setIsSaving(true) and updateProfile.mutateAsync(editedProfile) sends the update.
HandleSave(edited) ==
    /\ savePc \in {"idle", "saved", "failed"}
    /\ saves < MaxSaves
    /\ edited.unit_system = queryData.unit_system
    /\ saves' = saves + 1
    /\ editedProfile' = edited
    /\ savePc' = "updating"
    /\ UNCHANGED <<profiles, queryData, profileFetch, targetsUpdate>>
    /\ UNCHANGED notSaveVars

\* updateProfile.mutationFn succeeds: the row is updated; onSuccess invalidates
\* the profile query; handleSave goes on to recalculateTargets.mutateAsync().
UpdateProfileSucceeds ==
    /\ savePc = "updating"
    /\ profiles' = UpdateRow(profiles, editedProfile)
    /\ profileFetch' = Invalidated
    /\ savePc' = "recalculate"
    /\ UNCHANGED <<queryData, editedProfile, targetsUpdate, saves>>
    /\ UNCHANGED notSaveVars

\* updateProfile.mutationFn throws: handleSave's catch shows the error.
UpdateProfileFails ==
    /\ savePc = "updating"
    /\ savePc' = "failed"
    /\ UNCHANGED <<profiles, queryData, profileFetch, editedProfile, targetsUpdate, saves>>
    /\ UNCHANGED notSaveVars

\* recalculateTargets.mutationFn: reads query.data, throws on missing data,
\* else computes the targets of that profile and sends them as an update.
RecalculateTargetsStarts ==
    /\ savePc = "recalculate"
    /\ IF MissingProfileData(queryData)
       THEN /\ savePc' = "failed"
            /\ UNCHANGED targetsUpdate
       ELSE /\ targetsUpdate' = ComputedTargets(queryData)
            /\ savePc' = "recalculating"
    /\ UNCHANGED <<profiles, queryData, profileFetch, editedProfile, saves>>
    /\ UNCHANGED notSaveVars

\* The targets update succeeds: the row takes the four targets; onSuccess
\* invalidates the profile query; handleSave shows 'Profile updated!'.
RecalculateTargetsSucceeds ==
    /\ savePc = "recalculating"
    /\ profiles' = UpdateRow(profiles, targetsUpdate)
    /\ profileFetch' = Invalidated
    /\ savePc' = "saved"
    /\ UNCHANGED <<queryData, editedProfile, targetsUpdate, saves>>
    /\ UNCHANGED notSaveVars

\* The targets update throws: handleSave's catch shows the error.
RecalculateTargetsFails ==
    /\ savePc = "recalculating"
    /\ savePc' = "failed"
    /\ UNCHANGED <<profiles, queryData, profileFetch, editedProfile, targetsUpdate, saves>>
    /\ UNCHANGED notSaveVars

\* queryFn: the invalidated query selects the user's row.
ProfileQueryReads ==
    /\ profileFetch.state = "invalidated"
    /\ profileFetch' = [state |-> "fetching", row |-> profiles]
    /\ UNCHANGED <<profiles, queryData, editedProfile, savePc, targetsUpdate, saves>>
    /\ UNCHANGED notSaveVars

\* The fetch resolves: query.data becomes the row that was read.
ProfileQueryDelivers ==
    /\ profileFetch.state = "fetching"
    /\ queryData' = profileFetch.row
    /\ profileFetch' = Idle
    /\ UNCHANGED <<profiles, editedProfile, savePc, targetsUpdate, saves>>
    /\ UNCHANGED notSaveVars

(***************************************************************************)
(* One visit of the FoodSearch page: the user selects a food, edits the    *)
(* AddFoodDialog and adds the food to a meal, which inserts a row into the *)
(* meal_logs table.                                                        *)
(***************************************************************************)
MaxEdits == 2
MaxTypedIdx == 1

MealType == {"breakfast", "lunch", "dinner", "snack"}

\* null and undefined.
Null == "null"

\* selectedFood === null.
NoFood == [id |-> Null]

NoRequest == [state |-> "none"]

\* The signed-in user and the day the page is rendered on.
UserId == "user-1"

Today == "2026-11-06"

FoodOf(id, cat, sg, cal, p, c, f) ==
    [id |-> id, category |-> cat, serving_grams |-> sg, calories_per_serving |-> Num(cal),
     protein_grams |-> p, carbs_grams |-> c, fat_grams |-> f]

\* The foods the page lists: one of every category.
DialogFoods ==
    {FoodOf("apple", "fruits", Num(150), 78, R(4, 10), R(207, 10), R(3, 10)),
     FoodOf("spinach", "vegetables", Num(30), 7, R(9, 10), R(11, 10), R(1, 10)),
     FoodOf("chicken", "proteins", Num(100), 165, Num(31), Num(0), R(36, 10)),
     FoodOf("rice", "grains", Num(158), 205, R(43, 10), R(445, 10), R(4, 10)),
     FoodOf("milk", "dairy", Num(244), 149, R(77, 10), R(117, 10), R(79, 10)),
     FoodOf("almonds", "fats", Num(28), 164, Num(6), Num(6), Num(14)),
     FoodOf("juice", "beverages", Num(250), 112, R(17, 10), R(258, 10), R(5, 10)),
     FoodOf("chips", "snacks", Num(28), 152, Num(2), Num(15), Num(10)),
     FoodOf("shake", "custom", Num(0), 300, R(125, 10), Num(40), R(725, 100))}

\* What the user types into the quantity field: the text and what parseFloat
\* makes of it.
TypedValues ==
    {[text |-> "", parsed |-> NaN], [text |-> "-1", parsed |-> Num(-1)],
     [text |-> "0.7", parsed |-> R(7, 10)]}
        \cup {[text |-> "100", parsed |-> Num(100 * i)] : i \in 1..MaxTypedIdx}

\* const initialMealType = searchParams.get('meal') || 'lunch'.
initialMealType == IF searchParams.meal = Null THEN "lunch" ELSE searchParams.meal

\* const dateStr = searchParams.get('date') || undefined.
dateStr == searchParams.date

\* PostgreSQL's conversion of a value to NUMERIC(precision, scale): rounded to
\* scale decimals, halves away from zero.
NumericRound(x, scale) ==
    LET y == Mul(x, Num(Pow10(scale)))
    IN  IF y.n >= 0 THEN R(MathRound(y), Pow10(scale))
        ELSE Neg(R(MathRound(Neg(y)), Pow10(scale)))

\* The rounded value has at most precision - scale digits before the point.
NumericFits(x, precision, scale) ==
    LET v == NumericRound(x, scale)
    IN  Less(IF v.n >= 0 THEN v ELSE Neg(v), Num(Pow10(precision - scale)))

\* The meal_logs table accepts the row: meal_type is of the enum, servings is
\* DECIMAL(4,2), protein, carbs and fat are DECIMAL(6,2).
InsertAccepted(log) ==
    /\ log.meal_type \in MealType
    /\ NumericFits(log.servings, 4, 2)
    /\ \A k \in {"protein", "carbs", "fat"} : NumericFits(log[k], 6, 2)

\* The row the table stores.
StoredRow(log) ==
    [log EXCEPT !.servings = NumericRound(@, 2), !.protein = NumericRound(@, 2),
                !.carbs = NumericRound(@, 2), !.fat = NumericRound(@, 2)]

\* The page is not open.
DialogIdle ==
    /\ searchParams = [meal |-> Null, date |-> Null]
    /\ location = "/dashboard"
    /\ selectedFood = NoFood
    /\ isAddingMeal = FALSE
    /\ dialogQuantity = Num(1)
    /\ dialogUnit = "serving"
    /\ mealType = "lunch"
    /\ availableUnits = <<>>
    /\ edits = 0
    /\ addRequest = NoRequest
    /\ mealLogs = <<>>

\* The page has been opened, from the navigation bar or from a meal of a day
\* of the dashboard.
DialogInit ==
    /\ searchParams \in {[meal |-> Null, date |-> Null],
                        [meal |-> "dinner", date |-> "2026-01-15"]}
    /\ location = "/food-search"
    /\ selectedFood = NoFood
    /\ isAddingMeal = FALSE
    /\ dialogQuantity = Num(1)
    /\ dialogUnit = "serving"
    /\ mealType = initialMealType
    /\ availableUnits = <<>>
    /\ edits = 0
    /\ addRequest = NoRequest
    /\ mealLogs = <<>>

\* FoodSearch.handleSelectFood, and the dialog's effect and memo on the food.
HandleSelectFood ==
    /\ location = "/food-search"
    /\ selectedFood = NoFood
    /\ \E f \in DialogFoods :
         LET defaultUnit == getDefaultUnit(f.category)
         IN  /\ selectedFood' = f
             /\ dialogUnit' = defaultUnit
             /\ dialogQuantity' = IF defaultUnit = "serving" THEN Num(1) ELSE ServingGramsOf(f)
             /\ availableUnits' = getAvailableUnits(f.category)
    /\ mealType' = initialMealType
    /\ UNCHANGED <<searchParams, location, isAddingMeal, edits, addRequest, mealLogs>>
    /\ UNCHANGED notDialogVars

\* onClose: setSelectedFood(null).
OnClose ==
    /\ location = "/food-search"
    /\ selectedFood # NoFood
    /\ selectedFood' = NoFood
    /\ availableUnits' = <<>>
    /\ UNCHANGED <<searchParams, location, isAddingMeal, dialogQuantity, dialogUnit,
                   mealType, edits, addRequest, mealLogs>>
    /\ UNCHANGED notDialogVars

\* The dialog is open and the user makes another change; the user makes none
\* while an add is in progress.
DialogEditable ==
    /\ location = "/food-search"
    /\ selectedFood # NoFood
    /\ ~isAddingMeal
    /\ edits < MaxEdits

HandleQuantityChange ==
    /\ DialogEditable
    /\ \E value \in TypedValues :
         dialogQuantity' =
             IF value.parsed # NaN /\ Leq(Num(0), value.parsed) THEN value.parsed
             ELSE IF value.text = "" THEN Num(0)
             ELSE dialogQuantity
    /\ edits' = edits + 1
    /\ UNCHANGED <<searchParams, location, selectedFood, isAddingMeal, dialogUnit,
                   mealType, availableUnits, addRequest, mealLogs>>
    /\ UNCHANGED notDialogVars

\* The same without Math.max(0, ...).
SteppedQuantity_Unclamped(q, u, delta) ==
    LET step == IF u = "serving" THEN R(1, 2) ELSE Num(10)
        newValue == Add(q, Mul(Num(delta), step))
    IN  IF u = "serving" THEN newValue ELSE Num(MathRound(newValue))

\* The quantity handleQuantityStep sets.
SteppedQuantity(q, u, delta) ==
    LET step == IF u = "serving" THEN R(1, 2) ELSE Num(10)
        newValue == Max(Num(0), Add(q, Mul(Num(delta), step)))
    IN  IF u = "serving" THEN newValue ELSE Num(MathRound(newValue))

\* The minus button is disabled at quantity <= 0.
HandleQuantityStep ==
    /\ DialogEditable
    /\ \E delta \in {-1, 1} :
         /\ delta = -1 => Less(Num(0), dialogQuantity)
         /\ dialogQuantity' = SteppedQuantity(dialogQuantity, dialogUnit, delta)
    /\ edits' = edits + 1
    /\ UNCHANGED <<searchParams, location, selectedFood, isAddingMeal, dialogUnit,
                   mealType, availableUnits, addRequest, mealLogs>>
    /\ UNCHANGED notDialogVars

\* The quantity handleUnitChange sets for the new unit.
ConvertedQuantity(f, q, u, newUnit, side) ==
    LET servingGrams == ServingGramsOf(f)
    IN  IF u = "serving" /\ newUnit \in {"g", "ml"}
        THEN Num(MathRoundOfDouble(
                 Mul(q, servingGrams),
                 Representable(q) /\ Representable(servingGrams), side))
        ELSE IF u \in {"g", "ml"} /\ newUnit = "serving"
        THEN roundToDecimal(Div(q, servingGrams), 1,
                            Representable(Div(q, servingGrams)), side)
        ELSE q

HandleUnitChange ==
    /\ DialogEditable
    /\ \E newUnit \in QuantityUnit \ {dialogUnit}, side \in {"down", "up"} :
         /\ dialogQuantity' =
                ConvertedQuantity(selectedFood, dialogQuantity, dialogUnit, newUnit, side)
         /\ dialogUnit' = newUnit
    /\ edits' = edits + 1
    /\ UNCHANGED <<searchParams, location, selectedFood, isAddingMeal, mealType,
                   availableUnits, addRequest, mealLogs>>
    /\ UNCHANGED notDialogVars

\* The meal selector: setMealType.
SetMealType ==
    /\ DialogEditable
    /\ \E m \in MealType \ {mealType} : mealType' = m
    /\ edits' = edits + 1
    /\ UNCHANGED <<searchParams, location, selectedFood, isAddingMeal, dialogQuantity,
                   dialogUnit, availableUnits, addRequest, mealLogs>>
    /\ UNCHANGED notDialogVars

\* The object AddFoodDialog.handleAdd passes to onAdd.
AddData(sides) ==
    LET n == calculateNutrition(selectedFood, dialogQuantity, dialogUnit, sides)
    IN  [food |-> selectedFood, quantity |-> dialogQuantity, unit |-> dialogUnit,
         mealType |-> mealType,
         nutrition |-> [calories |-> n.calories, protein |-> n.protein,
                        carbs |-> n.carbs, fat |-> n.fat]]

\* The row FoodSearch.handleAddToMeal and addMealLog send to the table.
MealLogOf(d) ==
    LET servingGrams == ServingGramsOf(d.food)
        servings == IF d.unit = "serving" THEN d.quantity ELSE Div(d.quantity, servingGrams)
    IN  [user_id |-> UserId, food_id |-> d.food.id, meal_type |-> d.mealType,
         servings |-> servings, calories |-> d.nutrition.calories,
         protein |-> d.nutrition.protein, carbs |-> d.nutrition.carbs,
         fat |-> d.nutrition.fat,
         logged_date |-> IF dateStr = Null THEN Today ELSE dateStr]

\* The Add to Meal button: disabled={isAdding || quantity <= 0}.
AddToMealEnabled == ~(isAddingMeal \/ Leq(dialogQuantity, Num(0)))

\* The Add button (disabled while adding and at quantity <= 0): handleAdd, then
\* handleAddToMeal up to its await.
HandleAdd ==
    /\ location = "/food-search"
    /\ selectedFood # NoFood
    /\ AddToMealEnabled
    /\ isAddingMeal' = TRUE
    /\ \E sides \in RoundingsOf(selectedFood, dialogQuantity, dialogUnit) :
         addRequest' = [state |-> "sent", data |-> AddData(sides),
                        log |-> MealLogOf(AddData(sides))]
    /\ UNCHANGED <<searchParams, location, selectedFood, dialogQuantity, dialogUnit,
                   mealType, availableUnits, edits, mealLogs>>
    /\ UNCHANGED notDialogVars

\* The insert succeeds: handleAddToMeal closes the dialog and leaves the page.
AddMealLogSucceeds ==
    /\ addRequest # NoRequest
    /\ InsertAccepted(addRequest.log)
    /\ mealLogs' = Append(mealLogs, StoredRow(addRequest.log))
    /\ selectedFood' = NoFood
    /\ availableUnits' = <<>>
    /\ location' = "/dashboard"
    /\ isAddingMeal' = FALSE
    /\ addRequest' = NoRequest
    /\ UNCHANGED <<searchParams, dialogQuantity, dialogUnit, mealType, edits>>
    /\ UNCHANGED notDialogVars

\* The insert fails, on the network or on a value the table rejects:
\* handleAddToMeal shows the error and the dialog stays as it is.
AddMealLogFails ==
    /\ addRequest # NoRequest
    /\ isAddingMeal' = FALSE
    /\ addRequest' = NoRequest
    /\ UNCHANGED <<searchParams, location, selectedFood, dialogQuantity, dialogUnit,
                   mealType, availableUnits, edits, mealLogs>>
    /\ UNCHANGED notDialogVars

(***************************************************************************)
(* The record store: the tables of src/unnamed/part_000 under their row    *)
(* level security policies, and the requests one authenticated user sends  *)
(* to it, through the hooks or directly.                                   *)
(***************************************************************************)
Users == {"user-1", "user-2"}

Tables == {"profiles", "foods", "meal_logs", "weight_logs", "user_favorites"}

Commands == {"SELECT", "INSERT", "UPDATE", "DELETE"}

\* The primary keys: of the system food, and of the row each user has or
\* inserts in a table.
SystemFoodId == "id-0"

RowIdOf(u) == IF u = "user-1" THEN "id-1" ELSE "id-2"

FoodIds == {SystemFoodId} \cup {RowIdOf(u) : u \in Users}

\* The columns other than keys and owner, as one value: as the application
\* stored them, or changed by a request.
StoreValues == {"stored", "changed"}

\* The rows a request can name for a table: any owner, any referenced food,
\* any values.
RowsOfTable(t) ==
    CASE t = "foods" ->
           [id : FoodIds, created_by : Users \cup {Null}, is_system_food : BOOLEAN,
            value : StoreValues]
      [] t = "meal_logs" ->
           [id : {RowIdOf(u) : u \in Users}, user_id : Users, food_id : FoodIds,
            value : StoreValues]
      [] t = "user_favorites" ->
           [id : {RowIdOf(u) : u \in Users}, user_id : Users, food_id : FoodIds]
      [] OTHER ->
           [id : {RowIdOf(u) : u \in Users}, user_id : Users, value : StoreValues]

\* SQL's a = b, which is not true when either side is NULL.
SqlEq(a, b) == a # Null /\ b # Null /\ a = b

\* The USING expressions of a table's policies for a command, FALSE where the
\* table has no policy for it.
ProfilesUsing(command, uid, row) ==
    command \in {"SELECT", "UPDATE"} /\ SqlEq(uid, row.user_id)

FoodsUsing(command, uid, row) ==
    CASE command = "SELECT" -> row.is_system_food = TRUE \/ SqlEq(row.created_by, uid)
      [] command \in {"UPDATE", "DELETE"} ->
           SqlEq(row.created_by, uid) /\ row.is_system_food = FALSE
      [] OTHER -> FALSE

\* The meal_logs policies admitting every signed-in user: auth.uid() IS NOT NULL.
MealLogsUsing_AnySignedIn(command, uid, row) ==
    command \in {"SELECT", "UPDATE", "DELETE"} /\ uid # Null

MealLogsUsing(command, uid, row) ==
    command \in {"SELECT", "UPDATE", "DELETE"} /\ SqlEq(uid, row.user_id)

WeightLogsUsing(command, uid, row) ==
    command \in {"SELECT", "UPDATE", "DELETE"} /\ SqlEq(uid, row.user_id)

FavoritesUsing(command, uid, row) ==
    command \in {"SELECT", "DELETE"} /\ SqlEq(uid, row.user_id)

UsingExpr(t, command, uid, row) ==
    CASE t = "profiles" -> ProfilesUsing(command, uid, row)
      [] t = "foods" -> FoodsUsing(command, uid, row)
      [] t = "meal_logs" -> MealLogsUsing(command, uid, row)
      [] t = "weight_logs" -> WeightLogsUsing(command, uid, row)
      [] t = "user_favorites" -> FavoritesUsing(command, uid, row)

\* The WITH CHECK expression for a new row: that of the INSERT policy; for
\* UPDATE, whose policies give none, the USING expression.
CheckExpr(t, command, uid, row) ==
    IF command = "INSERT"
    THEN IF t = "foods"
         THEN SqlEq(uid, row.created_by) /\ row.is_system_food = FALSE
         ELSE SqlEq(uid, row.user_id)
    ELSE UsingExpr(t, "UPDATE", uid, row)

\* The foreign key food_id REFERENCES foods(id), checked without row security.
ForeignKeysHold(t, row, rows) ==
    t \in {"meal_logs", "user_favorites"} => \E f \in rows["foods"] : f.id = row.food_id

\* ON DELETE CASCADE of food_id: the rows of a table that go with a deleted food.
CascadedBy(t, deleted, rows) ==
    IF t \in {"meal_logs", "user_favorites"}
    THEN {r \in rows[t] : r.food_id = deleted.id}
    ELSE {}

NoStoreRequest == [command |-> "none", table |-> "none", uid |-> Null]

\* What the application has stored for each user: a profile, a custom food, a
\* meal of that food, a weight, and a system food as favorite.
SeededStore ==
    [t \in Tables |->
        CASE t = "foods" ->
               {[id |-> SystemFoodId, created_by |-> Null, is_system_food |-> TRUE,
                 value |-> "stored"]}
                   \cup {[id |-> RowIdOf(u), created_by |-> u, is_system_food |-> FALSE,
                          value |-> "stored"] : u \in Users}
          [] t = "meal_logs" ->
               {[id |-> RowIdOf(u), user_id |-> u, food_id |-> RowIdOf(u), value |-> "stored"] :
                    u \in Users}
          [] t = "user_favorites" ->
               {[id |-> RowIdOf(u), user_id |-> u, food_id |-> SystemFoodId] : u \in Users}
          [] OTHER -> {[id |-> RowIdOf(u), user_id |-> u, value |-> "stored"] : u \in Users}]

\* No request has been sent.
StoreIdle ==
    /\ store = SeededStore
    /\ lastRequest = NoStoreRequest
    /\ response = {}

\* One user has signed in: every request carries this user's auth.uid().
StoreInit ==
    /\ store = SeededStore
    /\ lastRequest \in {[command |-> "none", table |-> "none", uid |-> u] : u \in Users}
    /\ response = {}

\* select: the rows a SELECT policy admits.
StoreSelect ==
    \E t \in Tables :
        /\ lastRequest.uid # Null
        /\ response' = {r \in store[t] : UsingExpr(t, "SELECT", lastRequest.uid, r)}
        /\ lastRequest' = [lastRequest EXCEPT !.command = "SELECT", !.table = t]
        /\ UNCHANGED store
        /\ UNCHANGED notStoreVars

\* insert: the row is added when its key is free, its food exists and the
\* INSERT policy's check admits it.
StoreInsert ==
    \E t \in Tables :
        /\ lastRequest.uid # Null
        /\ \E row \in RowsOfTable(t) :
             store' =
                 IF /\ \A r \in store[t] : r.id # row.id
                    /\ ForeignKeysHold(t, row, store)
                    /\ CheckExpr(t, "INSERT", lastRequest.uid, row)
                 THEN [store EXCEPT ![t] = @ \cup {row}]
                 ELSE store
        /\ response' = {}
        /\ lastRequest' = [lastRequest EXCEPT !.command = "INSERT", !.table = "none"]
        /\ UNCHANGED notStoreVars

\* update ... eq('id', old.id): the row is replaced when the SELECT and UPDATE
\* policies admit the old row and the check admits the new one.
StoreUpdate ==
    \E t \in Tables :
        /\ lastRequest.uid # Null
        /\ \E old \in store[t], new \in RowsOfTable(t) :
             /\ new.id = old.id
             /\ store' =
                    IF /\ UsingExpr(t, "SELECT", lastRequest.uid, old)
                       /\ UsingExpr(t, "UPDATE", lastRequest.uid, old)
                       /\ ForeignKeysHold(t, new, store)
                       /\ CheckExpr(t, "UPDATE", lastRequest.uid, new)
                    THEN [store EXCEPT ![t] = (@ \ {old}) \cup {new}]
                    ELSE store
        /\ response' = {}
        /\ lastRequest' = [lastRequest EXCEPT !.command = "UPDATE", !.table = "none"]
        /\ UNCHANGED notStoreVars

\* delete ... eq('id', old.id): the row goes when the SELECT and DELETE
\* policies admit it, and with a food the rows that reference it.
StoreDelete ==
    \E t \in Tables :
        /\ lastRequest.uid # Null
        /\ \E old \in store[t] :
             store' =
                 IF /\ UsingExpr(t, "SELECT", lastRequest.uid, old)
                    /\ UsingExpr(t, "DELETE", lastRequest.uid, old)
                 THEN IF t = "foods"
                      THEN [u \in Tables |->
                               IF u = "foods" THEN store[u] \ {old}
                               ELSE store[u] \ CascadedBy(u, old, store)]
                      ELSE [store EXCEPT ![t] = @ \ {old}]
                 ELSE store
        /\ response' = {}
        /\ lastRequest' = [lastRequest EXCEPT !.command = "DELETE", !.table = "none"]
        /\ UNCHANGED notStoreVars

\* updateMealLog: update(updates).eq('id', id).eq('user_id', user.id).select()
UpdateMealLog ==
    /\ lastRequest.uid # Null
    /\ \E id \in {RowIdOf(u) : u \in Users},
          updates \in [user_id : Users, food_id : FoodIds, value : StoreValues] :
         LET matched == {r \in store["meal_logs"] :
                            /\ r.id = id
                            /\ r.user_id = lastRequest.uid
                            /\ UsingExpr("meal_logs", "SELECT", lastRequest.uid, r)
                            /\ UsingExpr("meal_logs", "UPDATE", lastRequest.uid, r)}
             new == [id |-> id, user_id |-> updates.user_id,
                     food_id |-> updates.food_id, value |-> updates.value]
             admitted == /\ matched # {}
                         /\ ForeignKeysHold("meal_logs", new, store)
                         /\ CheckExpr("meal_logs", "UPDATE", lastRequest.uid, new)
         IN  /\ store' = IF admitted
                         THEN [store EXCEPT !["meal_logs"] = (@ \ matched) \cup {new}]
                         ELSE store
             /\ response' = IF admitted /\ UsingExpr("meal_logs", "SELECT",
                                                     lastRequest.uid, new)
                            THEN {new} ELSE {}
             /\ lastRequest' =
                    [lastRequest EXCEPT !.command = "UPDATE",
                                        !.table = IF response' = {} THEN "none"
                                                  ELSE "meal_logs"]
    /\ UNCHANGED notStoreVars

\* deleteMealLog: delete().eq('id', id).eq('user_id', user.id)
DeleteMealLog ==
    /\ lastRequest.uid # Null
    /\ \E id \in {RowIdOf(u) : u \in Users} :
         store' = [store EXCEPT !["meal_logs"] =
                      {r \in @ : ~(/\ r.id = id
                                   /\ r.user_id = lastRequest.uid
                                   /\ UsingExpr("meal_logs", "SELECT", lastRequest.uid, r)
                                   /\ UsingExpr("meal_logs", "DELETE", lastRequest.uid, r))}]
    /\ response' = {}
    /\ lastRequest' = [lastRequest EXCEPT !.command = "DELETE", !.table = "none"]
    /\ UNCHANGED notStoreVars

(***************************************************************************)
(* The CalculationBreakdown component of the Profile page: its own         *)
(* computation of the targets it displays for the profile it is given.     *)
(***************************************************************************)
\* ACTIVITY_MULTIPLIERS[level].multiplier of the component.
BreakdownActivityMultiplier(level) ==
    CASE level = "sedentary" -> R(12, 10)
      [] level = "lightly_active" -> R(1375, 1000)
      [] level = "moderately_active" -> R(155, 100)
      [] level = "very_active" -> R(1725, 1000)
      [] level = "extra_active" -> R(19, 10)

\* GOAL_ADJUSTMENTS[goal].multiplier
GOAL_ADJUSTMENTS(goalType) ==
    CASE goalType = "lose" -> R(80, 100)
      [] goalType = "maintain" -> Num(1)
      [] goalType = "gain" -> R(110, 100)

PROTEIN_PER_KG(goalType) ==
    CASE goalType = "lose" -> Num(2)
      [] goalType = "maintain" -> R(16, 10)
      [] goalType = "gain" -> R(18, 10)

\* What the component displays: null for a profile without weight, height, age
\* or gender, else the calorie target and the grams of protein, carbs and fat.
CalculationBreakdown(profile) ==
    IF \/ IsZero(profile.current_weight) \/ IsZero(profile.height)
       \/ profile.age = 0 \/ profile.gender = Null
    THEN Null
    ELSE
    LET weightKg == IF profile.unit_system = "imperial"
                    THEN Div(profile.current_weight, R(2205, 1000))
                    ELSE profile.current_weight
        heightCm == IF profile.unit_system = "imperial"
                    THEN Mul(profile.height, R(254, 100))
                    ELSE profile.height
        genderOffset == IF profile.gender = "male" THEN 5 ELSE -161
        bmrShown == MathRound(Add(Sub(Add(Mul(Num(10), weightKg),
                                          Mul(R(625, 100), heightCm)),
                                      Num(5 * profile.age)),
                                  Num(genderOffset)))
        activityLevel == IF profile.activity_level = Null THEN "moderately_active"
                         ELSE profile.activity_level
        tdeeShown == MathRound(Mul(Num(bmrShown), BreakdownActivityMultiplier(activityLevel)))
        goalType == IF profile.goal_type = Null THEN "maintain" ELSE profile.goal_type
        target == MathRound(Mul(Num(tdeeShown), GOAL_ADJUSTMENTS(goalType)))
        protein == MathRound(Mul(weightKg, PROTEIN_PER_KG(goalType)))
        proteinCal == protein * 4
        fatCal == MathRound(Mul(Num(target), R(25, 100)))
        fat == MathRound(R(fatCal, 9))
        carbsCal == target - proteinCal - (fat * 9)
        carbs == MathRound(R(IF carbsCal < 0 THEN 0 ELSE carbsCal, 4))
    IN  [daily_calorie_target |-> target, daily_protein_target |-> protein,
         daily_carbs_target |-> carbs, daily_fat_target |-> fat]

(***************************************************************************)
(* Calls of calculateBMR, calculateTDEE, calculateCalorieTarget,           *)
(* calculateMacroTargets and calculateNutrition in any order.  What the    *)
(* two modules hold between calls is the object ACTIVITY_MULTIPLIERS;      *)
(* nutritionCalculator.ts has no module-level binding.                     *)
(***************************************************************************)
MaxCalls == 3

NoCall == [fn |-> "none"]

\* The arguments the calls are made with.
CallArguments ==
    [fn : {"calculateBMR"}, args : {Num(70)} \X {Num(175)} \X {30} \X Gender]
        \cup [fn : {"calculateTDEE"}, args : {R(16737, 10)} \X ActivityLevel]
        \cup [fn : {"calculateCalorieTarget"}, args : {R(22475, 10)} \X GoalType]
        \cup [fn : {"calculateMacroTargets"}, args : {1800} \X GoalType \X {Num(70)}]
        \cup [fn : {"calculateNutrition"},
              args : {f \in DialogFoods : f.id = "apple"}
                         \X {Num(1), Num(100)} \X QuantityUnit]

\* The object after a call: no function assigns to it.
RetainedAfterCall_MultiplierOverwritten(m, call) ==
    IF call.fn = "calculateTDEE" THEN [m EXCEPT ![call.args[2]] = R(12, 10)] ELSE m

RetainedAfterCall(m, call) == m

\* The value a call returns, calculateTDEE reading the object m; sides is how
\* the roundings of calculateNutrition fall.
ResultOfCall(m, call, sides) ==
    CASE call.fn = "calculateBMR" ->
           calculateBMR(call.args[1], call.args[2], call.args[3], call.args[4])
      [] call.fn = "calculateTDEE" -> Mul(call.args[1], m[call.args[2]])
      [] call.fn = "calculateCalorieTarget" ->
           calculateCalorieTarget(call.args[1], call.args[2])
      [] call.fn = "calculateMacroTargets" ->
           calculateMacroTargets(call.args[1], call.args[2], call.args[3])
      [] call.fn = "calculateNutrition" ->
           calculateNutrition(call.args[1], call.args[2], call.args[3], sides)

\* How the roundings of a call can fall: those of calculateNutrition as the
\* doubles decide, which the same doubles decide the same way in every call.
SidesOfCall(call) ==
    IF call.fn # "calculateNutrition"
    THEN {[k \in RoundedFields |-> "up"]}
    ELSE IF firstCall # NoCall /\ firstCall.fn = "calculateNutrition"
              /\ firstCall.args[1] = call.args[1]
         THEN RoundingsOfCall(call.args[1], firstCall.args[2], firstCall.args[3],
                              firstCall.sides, call.args[2], call.args[3])
         ELSE RoundingsOf(call.args[1], call.args[2], call.args[3])

\* No call has been made.
CallIdle ==
    /\ multipliers = [l \in ActivityLevel |-> ACTIVITY_MULTIPLIERS(l)]
    /\ firstCall = NoCall
    /\ lastCall = NoCall
    /\ calls = 0
    /\ interleaved = FALSE

CallInit == CallIdle

\* One call, from any caller.
MakeCall ==
    /\ calls < MaxCalls
    /\ \E c \in CallArguments :
         /\ \E sides \in SidesOfCall(c) :
            LET made == [fn |-> c.fn, args |-> c.args, sides |-> sides,
                         result |-> ResultOfCall(multipliers, c, sides)]
            IN  /\ lastCall' = made
                /\ firstCall' = IF firstCall = NoCall THEN made ELSE firstCall
                /\ interleaved' =
                       (firstCall # NoCall
                        /\ (interleaved \/ c.fn # firstCall.fn \/ c.args # firstCall.args))
         /\ multipliers' = RetainedAfterCall(multipliers, c)
    /\ calls' = calls + 1
    /\ UNCHANGED notCallVars

(***************************************************************************)
(* useFavorites: the favorites of the signed-in user, the query that       *)
(* caches them and the two mutations toggleFavorite chooses between.       *)
(***************************************************************************)
MaxToggles == 3

\* The foods the user stars and unstars.
FavoriteFoods == {"apple", "rice"}

\* No favorite, nothing fetched, no call made.
FavoriteIdle ==
    /\ userFavorites = {}
    /\ favoritesData = {}
    /\ favoritesStale = FALSE
    /\ toggles = <<>>

\* The hook is mounted and the query has fetched the user's rows.
FavoriteInit ==
    /\ userFavorites \in SUBSET FavoriteFoods
    /\ favoritesData = userFavorites
    /\ favoritesStale = FALSE
    /\ toggles = <<>>

\* isFavorite: (query.data || []).some(fav => fav.food_id === foodId).
isFavorite(foodId) == foodId \in favoritesData

\* toggleFavorite up to its await: the mutation is chosen from the cached
\* rows; wasFavorite records whether the table held the row at the call.
ToggleFavorite ==
    /\ Len(toggles) < MaxToggles
    /\ \E foodId \in FavoriteFoods :
         toggles' = Append(toggles,
                           [foodId |-> foodId,
                            mutation |-> IF isFavorite(foodId) THEN "remove" ELSE "add",
                            status |-> "pending",
                            wasFavorite |-> foodId \in userFavorites])
    /\ UNCHANGED <<userFavorites, favoritesData, favoritesStale>>
    /\ UNCHANGED notFavoriteVars

\* The insert of addFavorite reaches the table: UNIQUE(user_id, food_id)
\* rejects a second row of the food and mutateAsync rejects; otherwise the
\* row is inserted and onSuccess invalidates the query.
AddFavoriteSettles ==
    \E i \in DOMAIN toggles :
        /\ toggles[i].mutation = "add"
        /\ toggles[i].status = "pending"
        /\ IF toggles[i].foodId \in userFavorites
           THEN /\ toggles' = [toggles EXCEPT ![i].status = "error"]
                /\ UNCHANGED <<userFavorites, favoritesStale>>
           ELSE /\ toggles' = [toggles EXCEPT ![i].status = "success"]
                /\ userFavorites' = userFavorites \cup {toggles[i].foodId}
                /\ favoritesStale' = TRUE
        /\ UNCHANGED favoritesData
        /\ UNCHANGED notFavoriteVars

\* The delete of removeFavorite reaches the table: it deletes the rows of the
\* food, none if there is none, and onSuccess invalidates the query.
RemoveFavoriteSettles ==
    \E i \in DOMAIN toggles :
        /\ toggles[i].mutation = "remove"
        /\ toggles[i].status = "pending"
        /\ toggles' = [toggles EXCEPT ![i].status = "success"]
        /\ userFavorites' = userFavorites \ {toggles[i].foodId}
        /\ favoritesStale' = TRUE
        /\ UNCHANGED favoritesData
        /\ UNCHANGED notFavoriteVars

\* The invalidated query refetches the user's rows.
RefetchFavorites ==
    /\ favoritesStale
    /\ favoritesData' = userFavorites
    /\ favoritesStale' = FALSE
    /\ UNCHANGED <<userFavorites, toggles>>
    /\ UNCHANGED notFavoriteVars

(***************************************************************************)
(* ProtectedRoute: what the guard renders from the session, the profile    *)
(* query and the path.                                                     *)
(***************************************************************************)
\* The routes wrapped in ProtectedRoute, and the sign-in page.
ProtectedPaths == {"/dashboard", "/onboarding", "/profile"}

\* query.data: undefined before the first result and after an error, null
\* for PGRST116 (no row), or the row.
NoData == [kind |-> "undefined"]

NullProfile == [kind |-> "null"]

ProfileOf(completed) == [kind |-> "row", onboarding_completed |-> completed]

\* The values of profiles.onboarding_completed.
ProfileRows == {NullProfile} \cup {ProfileOf(b) : b \in BOOLEAN}

\* Nobody has opened the application.
RouteIdle ==
    /\ authLoading = TRUE
    /\ routeUser = Null
    /\ profileRow = NullProfile
    /\ profileQuery = [isLoading |-> FALSE, data |-> NoData]
    /\ profileStale = FALSE
    /\ pathname = "/dashboard"
    /\ requireOnboarding = TRUE

\* The application is opened on a protected route; the session is being
\* restored.
RouteInit ==
    /\ authLoading = TRUE
    /\ routeUser = Null
    /\ profileRow \in ProfileRows
    /\ profileQuery = [isLoading |-> FALSE, data |-> NoData]
    /\ profileStale = FALSE
    /\ pathname \in ProtectedPaths
    /\ requireOnboarding \in BOOLEAN

\* What ProtectedRoute returns.
ProtectedRoute(loading, user, query, path, required) ==
    LET profile == query.data
        loaded == profile.kind = "row"
    IN  IF loading \/ (user # Null /\ query.isLoading) THEN "Loader2"
        ELSE IF user = Null THEN "Navigate /auth"
        ELSE IF required /\ loaded /\ ~profile.onboarding_completed
                /\ path # "/onboarding"
        THEN "Navigate /onboarding"
        ELSE IF path = "/onboarding" /\ loaded /\ profile.onboarding_completed
        THEN "Navigate /dashboard"
        ELSE "children"

\* What the guard of the current route renders.
Rendered ==
    ProtectedRoute(authLoading, routeUser, profileQuery, pathname, requireOnboarding)

\* The session is restored: nobody is signed in, or the user is and the
\* profile query starts.
AuthSettles ==
    /\ authLoading
    /\ authLoading' = FALSE
    /\ \E u \in {Null, UserId} :
         /\ routeUser' = u
         /\ profileQuery' = [isLoading |-> u # Null, data |-> NoData]
    /\ UNCHANGED <<profileRow, profileStale, pathname, requireOnboarding>>
    /\ UNCHANGED notRouteVars

\* queryFn returns the row, or null when there is none, or throws.
ProfileQuerySettles ==
    /\ profileQuery.isLoading \/ profileStale
    /\ \E failed \in BOOLEAN :
         profileQuery' = [isLoading |-> FALSE,
                          data |-> IF failed THEN profileQuery.data ELSE profileRow]
    /\ profileStale' = FALSE
    /\ UNCHANGED <<authLoading, routeUser, profileRow, pathname, requireOnboarding>>
    /\ UNCHANGED notRouteVars

\* The router follows the Navigate the guard rendered.
FollowNavigate ==
    /\ pathname \in ProtectedPaths
    /\ \/ Rendered = "Navigate /auth" /\ pathname' = "/auth"
       \/ Rendered = "Navigate /onboarding" /\ pathname' = "/onboarding"
       \/ Rendered = "Navigate /dashboard" /\ pathname' = "/dashboard"
    /\ \E required \in BOOLEAN : requireOnboarding' = required
    /\ UNCHANGED <<authLoading, routeUser, profileRow, profileQuery, profileStale>>
    /\ UNCHANGED notRouteVars

\* The visitor opens another protected route.
VisitPath ==
    /\ \E path \in ProtectedPaths \ {pathname} : pathname' = path
    /\ \E required \in BOOLEAN : requireOnboarding' = required
    /\ UNCHANGED <<authLoading, routeUser, profileRow, profileQuery, profileStale>>
    /\ UNCHANGED notRouteVars

\* Onboarding.handleComplete on the rendered onboarding page: the update sets
\* onboarding_completed, onSuccess invalidates the query, the page navigates.
RouteCompleteOnboarding ==
    /\ pathname = "/onboarding"
    /\ Rendered = "children"
    /\ profileRow # NullProfile
    /\ profileRow' = ProfileOf(TRUE)
    /\ profileStale' = TRUE
    /\ pathname' = "/dashboard"
    /\ requireOnboarding' = TRUE
    /\ UNCHANGED <<authLoading, routeUser, profileQuery>>
    /\ UNCHANGED notRouteVars

(***************************************************************************)
(* useWeightLogs.addWeightLog: the upsert into weight_logs, which has      *)
(* UNIQUE(user_id, logged_date) and weight DECIMAL(5,2) NOT NULL.          *)
(***************************************************************************)
MaxUpserts == 3

\* The argument of mutationFn: weight, logged_date (optional), notes
\* (optional; Null stands for undefined).
WeightLogArguments ==
    [weight : {R(705, 10), R(70456, 1000), Num(82), Num(1000), NaN},
     logged_date : {Null, "2026-11-05", "2026-11-06"},
     notes : {Null, "", "after run"}]

\* The row the upsert sends: logged_date || format(new Date(), 'yyyy-MM-dd'),
\* notes || null.
WeightLogOf(log) ==
    [weight |-> log.weight,
     logged_date |-> IF log.logged_date = Null THEN Today ELSE log.logged_date,
     notes |-> IF log.notes \in {Null, ""} THEN Null ELSE log.notes]

\* The table accepts the row: weight is NOT NULL and DECIMAL(5,2).
WeightLogAccepted(row) == row.weight # NaN /\ NumericFits(row.weight, 5, 2)

\* The same as a plain insert into a table without the unique constraint.
UpsertedRows_InsertOnly(rows, row, id) ==
    rows \cup {[id |-> id, logged_date |-> row.logged_date,
                weight |-> NumericRound(row.weight, 2), notes |-> row.notes]}

\* INSERT ... ON CONFLICT (user_id, logged_date) DO UPDATE: the row of the
\* date takes the new weight and notes, or a new row is inserted under id.
UpsertedRows(rows, row, id) ==
    IF \E r \in rows : r.logged_date = row.logged_date
    THEN {IF r.logged_date = row.logged_date
          THEN [r EXCEPT !.weight = NumericRound(row.weight, 2), !.notes = row.notes]
          ELSE r : r \in rows}
    ELSE rows \cup {[id |-> id, logged_date |-> row.logged_date,
                     weight |-> NumericRound(row.weight, 2), notes |-> row.notes]}

NoUpsert == [outcome |-> "none"]

\* No weight has been logged.
WeightIdle ==
    /\ weightLogs = {}
    /\ lastUpsert = NoUpsert
    /\ upserts = 0

WeightInit == WeightIdle

\* One addWeightLog call of the signed-in user, from request to response.
AddWeightLog ==
    /\ upserts < MaxUpserts
    /\ upserts' = upserts + 1
    /\ \E log \in WeightLogArguments :
         LET row == WeightLogOf(log)
         IN  IF WeightLogAccepted(row)
             THEN /\ weightLogs' = UpsertedRows(weightLogs, row, upserts + 1)
                  /\ lastUpsert' = [outcome |-> "success", row |-> row,
                                    before |-> weightLogs]
             ELSE /\ weightLogs' = weightLogs
                  /\ lastUpsert' = [outcome |-> "error", row |-> row,
                                    before |-> weightLogs]
    /\ UNCHANGED notWeightVars

(***************************************************************************)
(* Dashboard: the selected date and its two handlers.                      *)
(***************************************************************************)
MaxDaySteps == 4

DateOf(y, m, d) == [year |-> y, month |-> m, day |-> d]

\* The days on which the dashboard is opened.
MountDates == {DateOf(2024, 3, 1), DateOf(2026, 1, 1), DateOf(2026, 11, 6)}

IsLeapYear(y) == (y % 4 = 0 /\ y % 100 # 0) \/ y % 400 = 0

DaysInMonth(y, m) ==
    IF m = 2 THEN (IF IsLeapYear(y) THEN 29 ELSE 28)
    ELSE IF m \in {4, 6, 9, 11} THEN 30 ELSE 31

\* Date.prototype.setDate(n) for n from 0 to one past the end of the month:
\* 0 is the last day of the previous month, one past the end is the first
\* day of the next.
SetDate(date, n) ==
    IF n < 1
    THEN LET y == IF date.month = 1 THEN date.year - 1 ELSE date.year
             m == IF date.month = 1 THEN 12 ELSE date.month - 1
         IN  DateOf(y, m, DaysInMonth(y, m) + n)
    ELSE IF n > DaysInMonth(date.year, date.month)
    THEN LET y == IF date.month = 12 THEN date.year + 1 ELSE date.year
             m == IF date.month = 12 THEN 1 ELSE date.month + 1
         IN  DateOf(y, m, n - DaysInMonth(date.year, date.month))
    ELSE DateOf(date.year, date.month, n)

\* format(date, 'yyyy-MM-dd'): year, month and day, compared as a whole.
FormatDate(date) == <<date.year, date.month, date.day>>

\* The date handlePrevDay sets.
PrevDate(selected) == SetDate(selected, selected.day - 1)

\* The same without the test of isToday.
NextDate_Unguarded(selected, today) == SetDate(selected, selected.day + 1)

\* The date handleNextDay leaves selected, today being the isToday of the
\* render the handler belongs to.
NextDate(selected, today) ==
    IF ~today THEN SetDate(selected, selected.day + 1) ELSE selected

NoNavigation == [handler |-> "none"]

\* The dashboard is not open.
DayIdle ==
    /\ selectedDate = DateOf(2026, 11, 6)
    /\ clock = DateOf(2026, 11, 6)
    /\ isToday = TRUE
    /\ lastNavigation = NoNavigation
    /\ daySteps = 0

\* useState(new Date()): the dashboard opens on today.
DayInit ==
    /\ clock \in MountDates
    /\ selectedDate = clock
    /\ isToday = TRUE
    /\ lastNavigation = NoNavigation
    /\ daySteps = 0

\* handlePrevDay, and the render that follows.
HandlePrevDay ==
    /\ daySteps < MaxDaySteps
    /\ daySteps' = daySteps + 1
    /\ selectedDate' = PrevDate(selectedDate)
    /\ isToday' = (FormatDate(selectedDate') = FormatDate(clock))
    /\ lastNavigation' = [handler |-> "handlePrevDay", from |-> selectedDate,
                          today |-> clock]
    /\ UNCHANGED clock
    /\ UNCHANGED notDayVars

\* handleNextDay, and the render that follows.
HandleNextDay ==
    /\ daySteps < MaxDaySteps
    /\ daySteps' = daySteps + 1
    /\ selectedDate' = NextDate(selectedDate, isToday)
    /\ isToday' = (FormatDate(selectedDate') = FormatDate(clock))
    /\ lastNavigation' = [handler |-> "handleNextDay", from |-> selectedDate,
                          today |-> clock]
    /\ UNCHANGED clock
    /\ UNCHANGED notDayVars

\* Midnight passes; nothing renders.
Midnight ==
    /\ daySteps < MaxDaySteps
    /\ daySteps' = daySteps + 1
    /\ clock' = SetDate(clock, clock.day + 1)
    /\ UNCHANGED <<selectedDate, isToday, lastNavigation>>
    /\ UNCHANGED notDayVars

\* The dashboard renders again, for a query result or a toast.
RenderDashboard ==
    /\ isToday # (FormatDate(selectedDate) = FormatDate(clock))
    /\ isToday' = (FormatDate(selectedDate) = FormatDate(clock))
    /\ UNCHANGED <<selectedDate, clock, lastNavigation, daySteps>>
    /\ UNCHANGED notDayVars

(***************************************************************************)
(* Specifications.                                                         *)
(***************************************************************************)
\* The Target Calculator on every profile of the input sets.
TargetNext == StepBMR \/ StepTDEE \/ StepCalorieTarget \/ StepMacroTargets

InitTargets ==
    TargetInit /\ NutritionIdle /\ SaveIdle /\ ValidateIdle /\ DialogIdle /\ StoreIdle
    /\ CallIdle
    /\ FavoriteIdle
    /\ RouteIdle
    /\ WeightIdle
    /\ DayIdle

SpecTargets == InitTargets /\ [][TargetNext]_vars

\* calculateNutrition on every food, quantity and unit of the input sets.
NutritionNext == CallCalculateNutrition \/ CallGetCalculationBreakdown

InitNutrition ==
    NutritionInit /\ TargetIdle /\ SaveIdle /\ ValidateIdle /\ DialogIdle /\ StoreIdle
    /\ CallIdle
    /\ FavoriteIdle
    /\ RouteIdle
    /\ WeightIdle
    /\ DayIdle

SpecNutrition == InitNutrition /\ [][NutritionNext]_vars

\* Profile edits saved through handleSave, the profile query refetching.
SaveNext ==
    \/ \E edited \in EditedProfiles : HandleSave(edited)
    \/ UpdateProfileSucceeds
    \/ UpdateProfileFails
    \/ RecalculateTargetsStarts
    \/ RecalculateTargetsSucceeds
    \/ RecalculateTargetsFails
    \/ ProfileQueryReads
    \/ ProfileQueryDelivers

InitSave ==
    SaveInit /\ TargetIdle /\ NutritionIdle /\ ValidateIdle /\ DialogIdle /\ StoreIdle
    /\ CallIdle
    /\ FavoriteIdle
    /\ RouteIdle
    /\ WeightIdle
    /\ DayIdle

SpecSave == InitSave /\ [][SaveNext]_vars

\* validateMacroCalorieMatch on every combination of the input sets.
ValidateNext == CallValidateMacroCalorieMatch

InitValidate ==
    ValidateInit /\ TargetIdle /\ NutritionIdle /\ SaveIdle /\ DialogIdle /\ StoreIdle
    /\ CallIdle
    /\ FavoriteIdle
    /\ RouteIdle
    /\ WeightIdle
    /\ DayIdle

SpecValidate == InitValidate /\ [][ValidateNext]_vars

(***************************************************************************)
(* Claims about the Target Calculator, checked under SpecTargets.          *)
(***************************************************************************)
ExampleProfile ==
    [current_weight |-> Num(70), height |-> Num(175), age |-> 30, gender |-> "male",
     activity_level |-> "moderately_active", goal_type |-> "lose"]

\* 4*proteinGrams + 4*carbsGrams + 9*fatGrams of the computed macros.
Reconstructed == 4 * macros.protein + 4 * macros.carbs + 9 * macros.fat

\* The calories protein and fat alone account for.
ProteinFatCalories == 4 * macros.protein + 9 * macros.fat

\* C1 (as stated): the example profile (70 kg, 175 cm, 30 years, male,
\* moderately active, lose) yields BMR 1073.75, calorie target 1331, protein
\* 140 g, fat 37 g and carbs 110 g.
C1_SpecExample ==
    (pc = "macros" /\ data = ExampleProfile) =>
        /\ bmr = R(107375, 100)
        /\ calorieTarget = 1331
        /\ macros.protein = 140
        /\ macros.fat = 37
        /\ macros.carbs = 110

\* C1 (amended): the example profile yields BMR 1648.75, TDEE 2555.5625, calorie
\* target 2044, protein 140 g, fat 57 g and carbs 243 g.
C1_Example ==
    (pc = "macros" /\ data = ExampleProfile) =>
        /\ bmr = R(164875, 100)
        /\ tdee = R(25555625, 10000)
        /\ calorieTarget = 2044
        /\ macros.protein = 140
        /\ macros.fat = 57
        /\ macros.carbs = 243

C1_Witness == pc = "macros" /\ data = ExampleProfile

\* C4 (as stated): for every profile with positive weight, height and age the
\* macros reconstruct to within 2 calories of the calorie target.
C4_AlwaysWithinTwo ==
    pc = "macros" => Abs(Reconstructed - calorieTarget) <= 2

\* C4 (amended): whenever protein and fat alone do not exceed the calorie
\* target (carbs are not clamped), the macros reconstruct to within 2 calories
\* of the calorie target.
C4_WithinTwoUnlessClamped ==
    (pc = "macros" /\ ProteinFatCalories <= calorieTarget) =>
        Abs(Reconstructed - calorieTarget) <= 2

C4_Witness ==
    /\ pc = "macros"
    /\ ProteinFatCalories <= calorieTarget
    /\ macros.carbs > 0
    /\ Abs(Reconstructed - calorieTarget) = 2

\* C5 (as stated): whenever protein*4 + fat*9 exceeds the calorie target, carbs
\* are 0 and the calories reconstructed from the macros fall below the target.
C5_ClampedFallsBelow ==
    (pc = "macros" /\ ProteinFatCalories > calorieTarget) =>
        (macros.carbs = 0 /\ Reconstructed < calorieTarget)

\* C5 (amended): whenever protein*4 + fat*9 exceeds the calorie target, carbs
\* are 0 and the calories reconstructed from the macros are protein*4 + fat*9,
\* which exceed the target.
C5_ClampedExceeds ==
    (pc = "macros" /\ ProteinFatCalories > calorieTarget) =>
        /\ macros.carbs = 0
        /\ macros._calculatedCalories = ProteinFatCalories
        /\ macros._calculatedCalories > calorieTarget

C5_Witness ==
    pc = "macros" /\ calorieTarget > 0 /\ ProteinFatCalories > calorieTarget

\* C6: the carbs returned by calculateMacroTargets are never negative, also
\* when protein*4 + fat*9 is greater than the calorie target.
C6_CarbsNonNegative == pc = "macros" => macros.carbs >= 0

C6_Witness ==
    /\ pc = "macros"
    /\ calorieTarget - 4 * macros.protein - 9 * macros.fat < -3
    /\ macros.carbs = 0

\* C7: for the same weight, height and age, the BMR of gender male is exactly
\* 166 above the BMR of gender female, and gender other has the BMR of female.
C7_GenderOffset ==
    pc # "start" =>
        bmr = Add(calculateBMR(data.current_weight, data.height, data.age, "female"),
                  Num(IF data.gender = "male" THEN 166 ELSE 0))

C7_Witness ==
    /\ pc = "bmr"
    /\ data.gender = "male"
    /\ bmr = Add(calculateBMR(data.current_weight, data.height, data.age, "other"),
                 Num(166))

\* The activity level after `level` in
\* sedentary < lightly_active < moderately_active < very_active < extra_active.
NextLevel(level) ==
    CASE level = "sedentary" -> "lightly_active"
      [] level = "lightly_active" -> "moderately_active"
      [] level = "moderately_active" -> "very_active"
      [] OTHER -> "extra_active"

TargetAtNextLevel ==
    calculateCalorieTarget(calculateTDEE(bmr, NextLevel(data.activity_level)),
                           data.goal_type)

CalorieTargetDone == pc \in {"calories", "macros"}

\* C8 (as stated): for a fixed BMR and goal, the next higher activity level
\* strictly increases the TDEE and strictly increases the rounded calorie target.
C8_StrictForEveryBMR ==
    (CalorieTargetDone /\ data.activity_level # "extra_active") =>
        /\ Less(tdee, calculateTDEE(bmr, NextLevel(data.activity_level)))
        /\ calorieTarget < TargetAtNextLevel

\* C8 (amended): for a fixed BMR > 0 and goal, the next higher activity level
\* strictly increases the TDEE and never decreases the rounded calorie target,
\* and strictly increases the calorie target whenever BMR >= 8.
C8_StrictForPositiveBMR ==
    (CalorieTargetDone /\ data.activity_level # "extra_active" /\ Less(Num(0), bmr)) =>
        /\ Less(tdee, calculateTDEE(bmr, NextLevel(data.activity_level)))
        /\ calorieTarget <= TargetAtNextLevel
        /\ Leq(Num(8), bmr) => calorieTarget < TargetAtNextLevel

C8_Witness ==
    /\ pc = "calories"
    /\ data.activity_level = "lightly_active"
    /\ data.goal_type = "lose"
    /\ Leq(Num(8), bmr)
    /\ Less(bmr, Num(9))
    /\ TargetAtNextLevel = calorieTarget + 1

\* The calorie target of goal g for the TDEE of the state; the one of the
\* profile's own goal is the value the chain computed.
TargetOfGoal(g) ==
    IF g = data.goal_type THEN calorieTarget ELSE calculateCalorieTarget(tdee, g)

GoalFormulas ==
    /\ TargetOfGoal("lose") = MathRound(Mul(tdee, R(8, 10)))
    /\ TargetOfGoal("maintain") = MathRound(tdee)
    /\ TargetOfGoal("gain") = MathRound(Mul(tdee, R(11, 10)))

\* C9 (as stated): for identical BMR and activity level, lose target < maintain
\* target < gain target, with lose = round(TDEE*0.8), maintain = round(TDEE)
\* and gain = round(TDEE*1.1).
C9_StrictForEveryTDEE ==
    CalorieTargetDone =>
        /\ TargetOfGoal("lose") < TargetOfGoal("maintain")
        /\ TargetOfGoal("maintain") < TargetOfGoal("gain")
        /\ GoalFormulas

\* C9 (amended): lose = round(TDEE*0.8), maintain = round(TDEE) and
\* gain = round(TDEE*1.1) for every TDEE; lose <= maintain <= gain whenever
\* TDEE >= 0, and lose < maintain < gain whenever TDEE >= 10.
C9_StrictFromTen ==
    CalorieTargetDone =>
        /\ GoalFormulas
        /\ Leq(Num(0), tdee) =>
              /\ TargetOfGoal("lose") <= TargetOfGoal("maintain")
              /\ TargetOfGoal("maintain") <= TargetOfGoal("gain")
        /\ Leq(Num(10), tdee) =>
              /\ TargetOfGoal("lose") < TargetOfGoal("maintain")
              /\ TargetOfGoal("maintain") < TargetOfGoal("gain")

C9_Witness ==
    /\ pc = "calories"
    /\ data.goal_type = "maintain"
    /\ Leq(Num(10), tdee)
    /\ Less(tdee, Num(11))
    /\ TargetOfGoal("gain") = calorieTarget + 1

\* The value each rounding step of the chain rounds, and the step's result.
RoundingSteps ==
    LET weight == IF data.current_weight = Num(0) THEN Num(70) ELSE data.current_weight
        factor == CASE data.goal_type = "lose" -> R(8, 10)
                    [] data.goal_type = "gain" -> R(11, 10)
                    [] OTHER -> Num(1)
        perKg == CASE data.goal_type = "lose" -> Num(2)
                   [] data.goal_type = "gain" -> R(18, 10)
                   [] OTHER -> R(16, 10)
        rest == calorieTarget - (macros.protein * 4) - (macros.fat * 9)
    IN  {<<Mul(tdee, factor), calorieTarget>>}
            \cup (IF pc = "macros"
                  THEN {<<Mul(weight, perKg), macros.protein>>,
                        <<Div(Mul(Num(calorieTarget), R(25, 100)), Num(9)), macros.fat>>,
                        <<Div(Num(IF rest < 0 THEN 0 ELSE rest), Num(4)), macros.carbs>>}
                  ELSE {})

\* k is x rounded half away from zero.
IsHalfAwayFromZero(x, k) ==
    IF x.n >= 0
    THEN Leq(Sub(Num(k), R(1, 2)), x) /\ Less(x, Add(Num(k), R(1, 2)))
    ELSE Less(Sub(Num(k), R(1, 2)), x) /\ Leq(x, Add(Num(k), R(1, 2)))

\* k is x rounded half towards +Infinity.
IsHalfUp(x, k) == Leq(Sub(Num(k), R(1, 2)), x) /\ Less(x, Add(Num(k), R(1, 2)))

\* C12 (as stated): every rounding step of the Target Calculator (calorie
\* target, protein grams, fat grams, carbs grams) rounds half away from zero,
\* for negative as well as positive intermediate values.
C12_HalfAwayFromZero ==
    CalorieTargetDone => \A step \in RoundingSteps : IsHalfAwayFromZero(step[1], step[2])

\* C12 (amended): every rounding step of the Target Calculator rounds to the
\* nearest integer, a tie going towards +Infinity: half away from zero for
\* non-negative values, half towards zero for negative ones (-7.5 gives -7).
C12_HalfTowardsPlusInfinity ==
    CalorieTargetDone =>
        \A step \in RoundingSteps :
            /\ IsHalfUp(step[1], step[2])
            /\ step[1].n >= 0 => IsHalfAwayFromZero(step[1], step[2])

\* male, 1 kg, 3 cm, 8 years, sedentary, maintain: the TDEE -7.5 is rounded
\* to the calorie target -7.
C12_Witness ==
    /\ CalorieTargetDone
    /\ tdee = R(-15, 2)
    /\ data.goal_type = "maintain"
    /\ calorieTarget = -7

\* C14: calculateMacroTargets returns protein = round(weightKg * p) with
\* p = 2.0 for lose, 1.8 for gain and 1.6 for maintain, fat =
\* round(calorieTarget*0.25/9) for every goal, and carbs = round(max(0,
\* calorieTarget - 4*protein - 9*fat)/4) on the rounded protein and fat grams.
C14_MacroFormulas ==
    pc = "macros" =>
        LET p == CASE data.goal_type = "lose" -> Num(2)
                   [] data.goal_type = "gain" -> R(18, 10)
                   [] data.goal_type = "maintain" -> R(16, 10)
            rest == calorieTarget - 4 * macros.protein - 9 * macros.fat
        IN  /\ macros.protein = MathRound(Mul(data.current_weight, p))
            /\ macros.fat = MathRound(Div(Mul(Num(calorieTarget), R(1, 4)), Num(9)))
            /\ macros.carbs = MathRound(R(IF rest > 0 THEN rest ELSE 0, 4))

\* 70 kg, gain: 126 g of protein, and the carbs computed from the rounded grams.
C14_Witness ==
    /\ pc = "macros"
    /\ data.goal_type = "gain"
    /\ data.current_weight = Num(70)
    /\ macros.protein = 126
    /\ macros.carbs > 0
    /\ (calorieTarget - 4 * macros.protein - 9 * macros.fat) % 4 # 0

(***************************************************************************)
(* Claims about calculateNutrition, checked under SpecNutrition.           *)
(***************************************************************************)
\* Whether two NutritionResults agree on calories, protein, carbs and fat.
SameNumbers(a, b) ==
    /\ a.calories = b.calories
    /\ a.protein = b.protein
    /\ a.carbs = b.carbs
    /\ a.fat = b.fat

\* The unit that g and ml are exchanged for.
OtherMetricUnit(u) == IF u = "g" THEN "ml" ELSE "g"

\* The results calculateNutrition can give for the food of the call made, on
\* the quantity q and the unit u.
ResultsOfCall(q, u) ==
    {calculateNutrition(food, q, u, o) :
        o \in RoundingsOfCall(food, quantity, unit, roundings, q, u)}

\* C2 (as stated): for any food and quantity q >= 0, calculateNutrition with
\* unit g equals calculateNutrition with unit ml in every field of the
\* NutritionResult, displayQuantity included.
C2_EveryFieldEqual ==
    (called /\ unit \in {"g", "ml"}) =>
        \A other \in ResultsOfCall(quantity, OtherMetricUnit(unit)) : nutrition = other

\* C2 (amended): for any food and quantity q >= 0, calculateNutrition with unit
\* g and with unit ml return the same calories, protein, carbs and fat; the
\* displayQuantity is the quantity followed by the unit passed, g or ml.
C2_NumbersEqual ==
    (called /\ unit \in {"g", "ml"}) =>
        \A other \in ResultsOfCall(quantity, OtherMetricUnit(unit)) :
            /\ SameNumbers(nutrition, other)
            /\ nutrition.displayQuantity = <<quantity, unit>>
            /\ other.displayQuantity = <<quantity, OtherMetricUnit(unit)>>

C2_Witness ==
    /\ called
    /\ unit = "ml"
    /\ quantity = Num(75)
    /\ food.serving_grams = Num(50)
    /\ food.calories_per_serving = Num(300)
    /\ nutrition.calories = 450

\* The three figures of the example: servingGrams 150 and 300 calories per
\* serving, 1 serving gives 300, 150 g gives 300 and 75 g gives 150 calories.
ServingExample ==
    (food.serving_grams = Num(150) /\ food.calories_per_serving = Num(300)) =>
        /\ (unit = "serving" /\ quantity = Num(1)) => nutrition.calories = 300
        /\ (unit = "g" /\ quantity = Num(150)) => nutrition.calories = 300
        /\ (unit = "g" /\ quantity = Num(75)) => nutrition.calories = 150

\* q * servingGrams, the grams of q servings.
GramsOfServings == Mul(quantity, food.serving_grams)

\* a and b differ by at most 1 calorie and 0.1 g of each macro.
WithinOneStep(a, b) ==
    /\ Abs(a.calories - b.calories) <= 1
    /\ \A k \in {"protein", "carbs", "fat"} :
          Leq(Sub(a[k], b[k]), R(1, 10)) /\ Leq(Sub(b[k], a[k]), R(1, 10))

\* C10 (as stated): for a food with servingGrams > 0, q servings and
\* q*servingGrams grams give the same calories, protein, carbs and fat; with
\* servingGrams 150 and 300 calories per serving, 1 serving gives 300, 150 g
\* gives 300 and 75 g gives 150 calories.
C10_ServingsAsGrams ==
    (called /\ ~IsZero(food.serving_grams)) =>
        /\ unit = "serving" =>
              \A grams \in ResultsOfCall(GramsOfServings, "g") :
                  SameNumbers(nutrition, grams)
        /\ ServingExample

\* C10 (amended): for a food with servingGrams > 0, q servings and
\* q*servingGrams grams give the same calories, protein, carbs and fat
\* whenever q*servingGrams and servingGrams are doubles (binary fractions,
\* such as whole or half grams); otherwise the two differ by at most 1 calorie
\* and 0.1 g of each macro.  The three figures of the example hold.
C10_ServingsAsGramsOfDoubles ==
    (called /\ ~IsZero(food.serving_grams)) =>
        /\ unit = "serving" =>
              \A grams \in ResultsOfCall(GramsOfServings, "g") :
                  /\ WithinOneStep(nutrition, grams)
                  /\ (Representable(GramsOfServings)
                          /\ Representable(food.serving_grams)) =>
                        SameNumbers(nutrition, grams)
        /\ ServingExample

\* 0.7 servings of a 28 g, 45 calorie serving logged as 31 calories, where
\* 19.6 g can give 32.
C10_Witness ==
    /\ called
    /\ unit = "serving"
    /\ quantity = R(7, 10)
    /\ food.serving_grams = Num(28)
    /\ food.calories_per_serving = Num(45)
    /\ nutrition.calories = 31
    /\ \E grams \in ResultsOfCall(GramsOfServings, "g") : grams.calories = 32

\* |x - y| <= e
Within(x, y, e) == Leq(Sub(x, y), e) /\ Leq(Sub(y, x), e)

\* value is a number of 1 decimal place nearest to raw.
RoundedOnceTo1Decimal(value, raw) ==
    /\ 10 % value.d = 0
    /\ Within(value, raw, R(1, 20))

\* C11: calculateNutrition rounds only at the end: with multiplier =
\* quantity/servingGrams for g and ml and multiplier = quantity for serving,
\* calories is the integer nearest to caloriesPerServing*multiplier and
\* protein, carbs and fat are each the 1-decimal number nearest to the
\* unrounded fact times the multiplier; no intermediate value is rounded.
C11_RoundedOnlyAtTheEnd ==
    called =>
        LET servingGrams ==
                IF IsZero(food.serving_grams) THEN Num(100) ELSE food.serving_grams
            multiplier ==
                IF unit \in {"g", "ml"} THEN Div(quantity, servingGrams) ELSE quantity
        IN  /\ Within(Num(nutrition.calories),
                      Mul(food.calories_per_serving, multiplier), R(1, 2))
            /\ RoundedOnceTo1Decimal(nutrition.protein, Mul(food.protein_grams, multiplier))
            /\ RoundedOnceTo1Decimal(nutrition.carbs, Mul(food.carbs_grams, multiplier))
            /\ RoundedOnceTo1Decimal(nutrition.fat, Mul(food.fat_grams, multiplier))

\* 0.7 g of a 150 g, 300 calorie serving: the multiplier 0.00466... is not
\* rounded to 0.00, the call returns 1 calorie.
C11_Witness ==
    /\ called
    /\ unit = "g"
    /\ quantity = R(7, 10)
    /\ food.serving_grams = Num(150)
    /\ food.calories_per_serving = Num(300)
    /\ nutrition.calories = 1

\* C17: the displayQuantity calculateNutrition returns is, for the units g and
\* ml, the quantity followed by the unit; for the unit serving it is the
\* quantity, "serving" (for the quantity 1) or "servings", and in parentheses
\* Math.round(quantity * servingGrams) followed by ml for a beverage and by g
\* for every other category.
C17_DisplayQuantityFormat ==
    called =>
        LET dq == nutrition.displayQuantity
            product == Mul(quantity, ServingGramsOf(food))
            inexactTie == product.d = 2 /\ ~(Representable(quantity)
                                             /\ Representable(ServingGramsOf(food)))
        IN  IF unit \in {"g", "ml"}
            THEN dq = <<quantity, unit>>
            ELSE /\ Len(dq) = 4
                 /\ dq[1] = quantity
                 /\ dq[2] = IF quantity = Num(1) THEN "serving" ELSE "servings"
                 /\ dq[3] \in {Num(MathRound(product))}
                                \cup (IF inexactTie THEN {Num(MathRound(product) - 1)}
                                      ELSE {})
                 /\ dq[4] = IF food.category = "beverages" THEN "ml" ELSE "g"

\* 1.5 servings of a beverage of 150 ml: "1.5 servings (225ml)".
C17_Witness ==
    /\ called
    /\ unit = "serving"
    /\ quantity = R(3, 2)
    /\ food.category = "beverages"
    /\ food.serving_grams = Num(150)
    /\ nutrition.displayQuantity = <<R(3, 2), "servings", Num(225), "ml">>

\* The food of the call with 100 as its serving size.
FoodOf100Grams == [food EXCEPT !.serving_grams = Num(100)]

\* C22: calculateNutrition and getCalculationBreakdown never divide by zero:
\* for a food whose serving_grams is 0 or missing they use 100 as the serving
\* size, and return what they return for the same food with serving_grams = 100.
C22_MissingServingSizeIs100 ==
    (called /\ food.serving_grams \in {Num(0), NaN}) =>
        /\ nutrition = calculateNutrition(FoodOf100Grams, quantity, unit, roundings)
        /\ breakdown # NoBreakdown =>
               \E display \in DisplaySidesOf(FoodOf100Grams, quantity, unit) :
                   breakdown = getCalculationBreakdown(FoodOf100Grams, quantity, unit,
                                                       roundings, display)

\* 75 g of a food without a serving size: three quarters of the facts, and
\* the breakdown made.
C22_Witness ==
    /\ called
    /\ breakdown # NoBreakdown
    /\ food.serving_grams \in {Num(0), NaN}
    /\ unit = "g"
    /\ quantity = Num(75)
    /\ food.calories_per_serving = Num(300)
    /\ nutrition.calories = 225
    /\ breakdown.multiplier = R(75, 100)
    /\ breakdown.perBaseNutrition.calories = Num(300)

\* C15: for every food, quantity and unit, the finalNutrition returned by
\* getCalculationBreakdown is identical to calculateNutrition(food, quantity,
\* unit); the display-rounded per-100 values and 2-decimal multiplier do not
\* feed into the final result.
C15_FinalNutritionIsCalculateNutrition ==
    breakdown # NoBreakdown =>
        /\ breakdown.finalNutrition = nutrition
        /\ \A other \in ResultsOfCall(quantity, unit) : breakdown.finalNutrition = other

\* 0.7 g of a 150 g, 300 calorie serving: the breakdown shows the multiplier
\* 0.00 and 200 calories per 100 g, the final nutrition is 1 calorie.
C15_Witness ==
    /\ breakdown # NoBreakdown
    /\ unit = "g"
    /\ quantity = R(7, 10)
    /\ food.serving_grams = Num(150)
    /\ food.calories_per_serving = Num(300)
    /\ breakdown.multiplier = Num(0)
    /\ breakdown.perBaseNutrition.calories = Num(200)
    /\ breakdown.finalNutrition.calories = 1

(***************************************************************************)
(* Claims about Profile.handleSave, checked under SpecSave.                *)
(***************************************************************************)
\* The four targets a row holds.
TargetsOf(row) ==
    [k \in {"daily_calorie_target", "daily_protein_target", "daily_carbs_target",
            "daily_fat_target"} |-> row[k]]

\* C3: whenever handleSave has run updateProfile and recalculateTargets and
\* both succeeded, the persisted calorie, protein, carbs and fat targets are
\* the Target Calculator's output for the profile fields just saved, in every
\* interleaving of the profile query's refetch with the recalculation.
C3_SavedTargetsMatchProfile ==
    savePc = "saved" => TargetsOf(profiles) = ComputedTargets(profiles)

\* C23: for every profile with weight, height, age and gender set, the calorie
\* target and the protein, fat and carbs grams the CalculationBreakdown
\* component displays are the targets recalculateTargets computes and persists
\* for that profile.
C23_BreakdownShowsPersistedTargets ==
    ~MissingProfileData(queryData) =>
        CalculationBreakdown(queryData) = ComputedTargets(queryData)

\* The Target Calculator on metric inputs: weight / 2.205 and height * 2.54 of
\* an imperial profile, the stored weight and height of a metric one.
TargetsOnMetricInputs(p) ==
    LET kg == IF p.unit_system = "imperial" THEN Div(p.current_weight, R(2205, 1000))
              ELSE p.current_weight
        cm == IF p.unit_system = "imperial" THEN Mul(p.height, R(254, 100)) ELSE p.height
        target == calculateCalorieTarget(
                      calculateTDEE(calculateBMR(kg, cm, p.age, p.gender),
                                    p.activity_level),
                      p.goal_type)
        m == calculateMacroTargets(target, p.goal_type, kg)
    IN  [daily_calorie_target |-> target, daily_protein_target |-> m.protein,
         daily_carbs_target |-> m.carbs, daily_fat_target |-> m.fat]

\* C18: both callers of the Target Calculator pass metric inputs (weight / 2.205
\* and height * 2.54 of an imperial profile, the stored weight and height of a
\* metric one): the row completeOnboarding has written holds the targets of
\* these inputs, and the targets recalculateTargets computes for a profile are
\* those of these inputs and those completeOnboarding computes for the same
\* fields.
C18_CallersPassMetricInputs ==
    /\ [](saves = 0 => TargetsOf(profiles) = TargetsOnMetricInputs(profiles))
    /\ [][(savePc = "recalculate" /\ savePc' = "recalculating") =>
              /\ targetsUpdate' = TargetsOnMetricInputs(queryData)
              /\ targetsUpdate' = OnboardingTargets(queryData)]_vars

\* recalculateTargets has computed the targets of an imperial profile.
C18_Witness ==
    /\ savePc = "recalculating"
    /\ queryData.unit_system = "imperial"
    /\ WeightKg(queryData) = Div(queryData.current_weight, R(2205, 1000))
    /\ targetsUpdate = OnboardingTargets(queryData)
    /\ targetsUpdate # NoTargets

(***************************************************************************)
(* Claims about validateMacroCalorieMatch, checked under SpecValidate.     *)
(***************************************************************************)
\* |calories - (4*protein + 4*carbs + 9*fat)| of the arguments.
MatchDifference ==
    LET sum == Add(Add(Mul(matchArgs.protein, Num(4)), Mul(matchArgs.carbs, Num(4))),
                   Mul(matchArgs.fat, Num(9)))
    IN  IF Less(matchArgs.calories, sum)
        THEN Sub(sum, matchArgs.calories)
        ELSE Sub(matchArgs.calories, sum)

\* max(5% of calories, 5)
MatchBound ==
    LET fivePercent == Div(matchArgs.calories, Num(20))
    IN  IF Less(fivePercent, Num(5)) THEN Num(5) ELSE fivePercent

ValidatorExample ==
    matchArgs = [calories |-> Num(100), protein |-> Num(0), carbs |-> Num(0),
                 fat |-> Num(0)] =>
        validation = [isValid |-> FALSE, calculatedCalories |-> 0, difference |-> 100]

\* C13 (as stated): validateMacroCalorieMatch reports isValid = false exactly
\* when |calories - (4*protein + 4*carbs + 9*fat)| exceeds max(5% of
\* calories, 5), and for (100, 0, 0, 0) returns calculatedCalories 0,
\* difference 100 and isValid false.
C13_InvalidExactlyAboveBound ==
    validated =>
        /\ validation.isValid = FALSE <=> Less(MatchBound, MatchDifference)
        /\ ValidatorExample

\* C13 (amended): isValid is false whenever the difference exceeds max(5% of
\* calories, 5) and true whenever it is below it; on the bound itself isValid
\* is true when calories and the macros are doubles (binary fractions), and
\* either value otherwise.  (100, 0, 0, 0) returns calculatedCalories 0,
\* difference 100 and isValid false.
C13_InvalidAboveBound ==
    validated =>
        /\ Less(MatchBound, MatchDifference) => validation.isValid = FALSE
        /\ Less(MatchDifference, MatchBound) => validation.isValid = TRUE
        /\ (\A k \in DOMAIN matchArgs : Representable(matchArgs[k])) =>
              (validation.isValid = FALSE <=> Less(MatchBound, MatchDifference))
        /\ ValidatorExample

\* (40, 0.7, 1.1, 4.2): the macros make 45 calories, the difference is on the
\* bound 5 and the call reports isValid false.
C13_Witness ==
    /\ validated
    /\ matchArgs = [calories |-> Num(40), protein |-> R(7, 10), carbs |-> R(11, 10),
                    fat |-> R(42, 10)]
    /\ validation.isValid = FALSE
    /\ validation.difference = 5


DialogNext ==
    \/ HandleSelectFood
    \/ OnClose
    \/ HandleQuantityChange
    \/ HandleQuantityStep
    \/ HandleUnitChange
    \/ SetMealType
    \/ HandleAdd
    \/ AddMealLogSucceeds
    \/ AddMealLogFails

InitDialog ==
    DialogInit /\ TargetIdle /\ NutritionIdle /\ SaveIdle /\ ValidateIdle /\ StoreIdle
    /\ CallIdle
    /\ FavoriteIdle
    /\ RouteIdle
    /\ WeightIdle
    /\ DayIdle

SpecDialog == InitDialog /\ [][DialogNext]_vars


(***************************************************************************)
(* Claims about the FoodSearch page and its dialog, checked under          *)
(* SpecDialog.                                                             *)
(***************************************************************************)

\* The value fields of the availableUnits memo, in order.
UnitValues == [i \in 1..Len(availableUnits) |-> availableUnits[i].value]

\* C16: getDefaultUnit returns ml for the category beverages and serving for
\* every other category; getAvailableUnits returns exactly the three units
\* serving, g and ml, none twice, as serving, ml, g for beverages and as
\* serving, g, ml for every other category.  (The dialog's unit is the default
\* unit of the selected food until the user changes something.)
C16_DefaultAndAvailableUnits ==
    selectedFood # NoFood =>
        /\ Len(UnitValues) = 3
        /\ {UnitValues[i] : i \in 1..3} = QuantityUnit
        /\ UnitValues = IF selectedFood.category = "beverages"
                        THEN <<"serving", "ml", "g">>
                        ELSE <<"serving", "g", "ml">>
        /\ edits = 0 =>
               dialogUnit = IF selectedFood.category = "beverages" THEN "ml" ELSE "serving"

\* The dialog has just been opened on a beverage.
C16_Witness ==
    /\ selectedFood # NoFood
    /\ selectedFood.category = "beverages"
    /\ edits = 0
    /\ dialogUnit = "ml"
    /\ UnitValues = <<"serving", "ml", "g">>


\* The insert of the add in progress succeeds in this step.
AddSucceedsNow == addRequest # NoRequest /\ location' = "/dashboard"

\* The row the step has appended to meal_logs.
NewMealLog == mealLogs'[Len(mealLogs')]

\* C19: each successful Add-to-Meal creates exactly one meal log, whose
\* calories, protein, carbs and fat are calculateNutrition(food, quantity, unit)
\* of the quantity and unit selected at the click, whose servings is the
\* multiplier of that computation (the quantity for serving, quantity /
\* servingGrams for g and ml), and which carries the selected meal type and
\* the date of the URL or else today.
C19_OneMealLogOfTheClick ==
    [][AddSucceedsNow =>
          LET d == addRequest.data
          IN  /\ Len(mealLogs') = Len(mealLogs) + 1
              /\ \E o \in RoundingsOf(d.food, d.quantity, d.unit) :
                   LET n == calculateNutrition(d.food, d.quantity, d.unit, o)
                   IN  /\ NewMealLog.calories = n.calories
                       /\ NewMealLog.protein = n.protein
                       /\ NewMealLog.carbs = n.carbs
                       /\ NewMealLog.fat = n.fat
              /\ NewMealLog.servings =
                     (IF d.unit = "serving" THEN d.quantity
                      ELSE Div(d.quantity, ServingGramsOf(d.food)))
              /\ NewMealLog.food_id = d.food.id
              /\ NewMealLog.meal_type = d.mealType
              /\ NewMealLog.logged_date =
                     (IF searchParams.date = Null THEN Today ELSE searchParams.date)]_vars


StoreNext ==
    \/ StoreSelect
    \/ StoreInsert
    \/ StoreUpdate
    \/ StoreDelete
    \/ UpdateMealLog
    \/ DeleteMealLog

InitStore ==
    StoreInit /\ TargetIdle /\ NutritionIdle /\ SaveIdle /\ ValidateIdle /\ DialogIdle
    /\ CallIdle
    /\ FavoriteIdle
    /\ RouteIdle
    /\ WeightIdle
    /\ DayIdle

SpecStore == InitStore /\ [][StoreNext]_vars

(***************************************************************************)
(* Claims about the record store, checked under SpecStore.                 *)
(***************************************************************************)
\* The user a row belongs to; a system food belongs to nobody.
OwnerOf(t, row) == IF t = "foods" THEN row.created_by ELSE row.user_id

CallNext == MakeCall

InitCalls ==
    CallInit /\ TargetIdle /\ NutritionIdle /\ SaveIdle /\ ValidateIdle /\ DialogIdle /\ StoreIdle
    /\ FavoriteIdle
    /\ RouteIdle
    /\ WeightIdle
    /\ DayIdle

SpecCalls == InitCalls /\ [][CallNext]_vars

(***************************************************************************)
(* Claims about calls in sequence, checked under SpecCalls.                *)
(***************************************************************************)
\* The result of a call made in isolation: with the modules as they are loaded.
IsolatedResult(call) ==
    ResultOfCall([l \in ActivityLevel |-> ACTIVITY_MULTIPLIERS(l)], call, call.sides)

ShownNutrition(f, q, u) ==
    {[k \in {"calories", "protein", "carbs", "fat"} |->
         calculateNutrition(f, q, u, sides)[k]] :
     sides \in RoundingsOf(f, q, u)}

\* C24: handleUnitChange converts the quantity so that the computed nutrition
\* (calories, protein, carbs, fat) is the same before and after the change,
\* for every food, quantity and pair of units.
C24_UnitChangeKeepsNutrition ==
    selectedFood # NoFood =>
        \A newUnit \in QuantityUnit \ {dialogUnit}, side \in {"down", "up"} :
            ShownNutrition(selectedFood,
                           ConvertedQuantity(selectedFood, dialogQuantity, dialogUnit,
                                             newUnit, side),
                           newUnit)
                = ShownNutrition(selectedFood, dialogQuantity, dialogUnit)


\* C25: after any sequence of food selections, typed quantity changes,
\* plus/minus steps and unit changes the quantity is never negative, Add to
\* Meal is enabled only at a quantity greater than 0 with no add in flight,
\* and an add in flight was made with a quantity greater than 0.
C25_QuantityNeverNegative ==
    /\ Leq(Num(0), dialogQuantity)
    /\ AddToMealEnabled => Less(Num(0), dialogQuantity) /\ addRequest = NoRequest
    /\ addRequest # NoRequest => Less(Num(0), addRequest.data.quantity)

\* A small amount of a beverage was typed and the minus button pressed: the
\* quantity is 0 and Add to Meal is disabled though no add is in flight.
C25_Witness ==
    /\ selectedFood # NoFood
    /\ dialogUnit = "ml"
    /\ edits = 2
    /\ dialogQuantity = Num(0)
    /\ ~isAddingMeal
    /\ ~AddToMealEnabled


(***************************************************************************)
(* The favorites of one user under any interleaving of calls, responses    *)
(* and refetches.                                                          *)
(***************************************************************************)
FavoriteNext ==
    \/ ToggleFavorite
    \/ AddFavoriteSettles
    \/ RemoveFavoriteSettles
    \/ RefetchFavorites

InitFavorites ==
    FavoriteInit /\ TargetIdle /\ NutritionIdle /\ SaveIdle /\ ValidateIdle /\ DialogIdle
    /\ StoreIdle /\ CallIdle
    /\ RouteIdle
    /\ WeightIdle
    /\ DayIdle

SpecFavorites == InitFavorites /\ [][FavoriteNext]_vars

\* The calls made on a food.
TogglesOf(foodId) == {i \in DOMAIN toggles : toggles[i].foodId = foodId}

\* C26: toggleFavorite called twice on the same food restores the original
\* membership, also when the second call is issued before the favorites
\* query has refetched, and neither call fails.
C26_ToggleTwiceRestores ==
    \A foodId \in FavoriteFoods :
        (/\ Cardinality(TogglesOf(foodId)) = 2
         /\ \A i \in TogglesOf(foodId) : toggles[i].status # "pending")
        => /\ \A i \in TogglesOf(foodId) : toggles[i].status = "success"
           /\ \A i \in TogglesOf(foodId) :
                  (\A j \in TogglesOf(foodId) : i <= j)
                  => (foodId \in userFavorites <=> toggles[i].wasFavorite)


(***************************************************************************)
(* The route guard under any session, profile and navigation.              *)
(***************************************************************************)
RouteNext ==
    \/ AuthSettles
    \/ ProfileQuerySettles
    \/ FollowNavigate
    \/ VisitPath
    \/ RouteCompleteOnboarding

InitRoute ==
    RouteInit /\ TargetIdle /\ NutritionIdle /\ SaveIdle /\ ValidateIdle /\ DialogIdle
    /\ StoreIdle /\ CallIdle /\ FavoriteIdle
    /\ WeightIdle
    /\ DayIdle

SpecRoute == InitRoute /\ [][RouteNext]_vars

\* The user's onboarding is completed: the profiles row says so.
OnboardingCompleted == profileRow = ProfileOf(TRUE)

\* The session and the profile query have settled and the query is fresh.
RouteSettled ==
    /\ ~authLoading
    /\ routeUser # Null => ~profileQuery.isLoading /\ ~profileStale

\* C27: with requireOnboarding on, ProtectedRoute never renders its children
\* for an unauthenticated visitor, whom it redirects to /auth, nor, on a path
\* other than /onboarding, for a signed-in user whose onboarding is not
\* completed, whom it redirects to /onboarding; a user with onboarding
\* completed who visits /onboarding is redirected to /dashboard.
C27_GuardKeepsChildrenBehindOnboarding ==
    (pathname \in ProtectedPaths /\ requireOnboarding) =>
        /\ routeUser = Null => Rendered # "children"
        /\ (routeUser = Null /\ RouteSettled) => Rendered = "Navigate /auth"
        /\ (routeUser # Null /\ ~OnboardingCompleted /\ pathname # "/onboarding")
               => Rendered # "children"
        /\ (routeUser # Null /\ ~OnboardingCompleted /\ pathname # "/onboarding"
            /\ RouteSettled) => Rendered = "Navigate /onboarding"
        /\ (routeUser # Null /\ OnboardingCompleted /\ pathname = "/onboarding"
            /\ RouteSettled) => Rendered = "Navigate /dashboard"


(***************************************************************************)
(* The weight logs of one user under any sequence of addWeightLog calls.   *)
(***************************************************************************)
WeightNext == AddWeightLog

InitWeight ==
    WeightInit /\ TargetIdle /\ NutritionIdle /\ SaveIdle /\ ValidateIdle /\ DialogIdle
    /\ StoreIdle /\ CallIdle /\ FavoriteIdle /\ RouteIdle
    /\ DayIdle

SpecWeight == InitWeight /\ [][WeightNext]_vars

\* The rows of a date.
LogsOn(rows, date) == {r \in rows : r.logged_date = date}

\* C28: after any sequence of addWeightLog calls there is at most one weight
\* log per date; a call that succeeds for a date that has an entry keeps that
\* row and replaces its weight (to two decimals) and notes, for a new date it
\* adds one row, and the entries of other dates are unchanged; a call that
\* fails changes nothing.
C28_OneWeightLogPerDate ==
    /\ \A r1, r2 \in weightLogs : r1.logged_date = r2.logged_date => r1 = r2
    /\ lastUpsert.outcome = "error" => weightLogs = lastUpsert.before
    /\ lastUpsert.outcome = "success" =>
           LET row == lastUpsert.row
               before == lastUpsert.before
           IN  /\ weightLogs \ LogsOn(weightLogs, row.logged_date)
                      = before \ LogsOn(before, row.logged_date)
               /\ \E r \in weightLogs :
                      /\ LogsOn(weightLogs, row.logged_date) = {r}
                      /\ r.weight = NumericRound(row.weight, 2)
                      /\ r.notes = row.notes
                      /\ \A b \in LogsOn(before, row.logged_date) : b.id = r.id

\* A weight was logged for a date that had an entry with another weight and
\* a note, while another date has an entry too.
C28_Witness ==
    /\ lastUpsert.outcome = "success"
    /\ \E b \in lastUpsert.before :
           /\ b.logged_date = lastUpsert.row.logged_date
           /\ b.weight # NumericRound(lastUpsert.row.weight, 2)
           /\ b.notes # lastUpsert.row.notes
    /\ \E o \in weightLogs : o.logged_date # lastUpsert.row.logged_date


(***************************************************************************)
(* The sign of the targets, checked under SpecTargets.                     *)
(***************************************************************************)
\* C29 as stated: for every profile with positive weight, height and age the
\* calorie target and the protein, fat and carbs targets are non-negative.
C29_AllTargetsNonNegative ==
    (pc = "macros" /\ Less(Num(0), data.current_weight) /\ Less(Num(0), data.height)
     /\ data.age > 0)
    => /\ calorieTarget >= 0
       /\ macros.protein >= 0
       /\ macros.fat >= 0
       /\ macros.carbs >= 0

\* C29: for every profile with positive weight, height and age the protein
\* and carbs targets are non-negative, and the calorie target and the fat
\* target are non-negative whenever the BMR is (10*weight + 6.25*height
\* - 5*age + offset >= 0).
C29_NonNegativeForNonNegativeBMR ==
    (pc = "macros" /\ Less(Num(0), data.current_weight) /\ Less(Num(0), data.height)
     /\ data.age > 0)
    => /\ macros.protein >= 0
       /\ macros.carbs >= 0
       /\ Leq(Num(0), bmr) => calorieTarget >= 0 /\ macros.fat >= 0

\* The targets of a profile of 1 kg, 3 cm and 5 years, whose BMR is 8.75.
C29_Witness ==
    /\ pc = "macros"
    /\ data.current_weight = Num(1)
    /\ data.height = Num(3)
    /\ data.age = 5
    /\ data.gender = "male"
    /\ data.goal_type = "lose"
    /\ bmr = R(875, 100)
    /\ calorieTarget >= 0
    /\ macros.fat >= 0


(***************************************************************************)
(* The dashboard's date under any sequence of its handlers, midnights and  *)
(* renders.                                                                *)
(***************************************************************************)
DayNext ==
    \/ HandlePrevDay
    \/ HandleNextDay
    \/ Midnight
    \/ RenderDashboard

InitDays ==
    DayInit /\ TargetIdle /\ NutritionIdle /\ SaveIdle /\ ValidateIdle /\ DialogIdle
    /\ StoreIdle /\ CallIdle /\ FavoriteIdle /\ RouteIdle /\ WeightIdle

SpecDays == InitDays /\ [][DayNext]_vars

\* The number of a day of the calendar, counted from 1970-01-01.
DayNumber(date) ==
    LET y == IF date.month <= 2 THEN date.year - 1 ELSE date.year
        era == y \div 400
        yoe == y - era * 400
        mp == IF date.month > 2 THEN date.month - 3 ELSE date.month + 9
        doy == (153 * mp + 2) \div 5 + date.day - 1
        doe == yoe * 365 + yoe \div 4 - yoe \div 100 + doy
    IN  era * 146097 + doe - 719468

\* C30: starting from today, after any sequence of handlePrevDay and
\* handleNextDay the selected date is never later than today; handleNextDay
\* while today is selected leaves the selected date unchanged, and
\* handlePrevDay always moves back exactly one day.
C30_SelectedDateNeverAfterToday ==
    /\ DayNumber(selectedDate) <= DayNumber(clock)
    /\ (lastNavigation.handler = "handleNextDay"
        /\ lastNavigation.from = lastNavigation.today)
           => selectedDate = lastNavigation.from
    /\ lastNavigation.handler = "handlePrevDay"
           => DayNumber(selectedDate) = DayNumber(lastNavigation.from) - 1

\* handlePrevDay has crossed the end of February of a leap year, and
\* handleNextDay has been called on today before.
C30_Witness ==
    /\ lastNavigation.handler = "handlePrevDay"
    /\ lastNavigation.from = DateOf(2024, 3, 1)
    /\ lastNavigation.today = DateOf(2024, 3, 1)
    /\ selectedDate = DateOf(2024, 2, 29)
    /\ daySteps = 2

====
